---- MODULE Spec2Model ----
(***************************************************************************)
(* State-machine model of the URL -> scraped content -> prediction event   *)
(* -> market pipeline of serve_frontend.py (scrape_content, json_from_text,*)
(* analyze_with_ai, create_market, run_pipeline, parse_url, main).         *)
(*                                                                         *)
(* Representation of Python values                                         *)
(*   str    a sequence of atoms (TLA+ strings).  Texts that the code       *)
(*          measures, slices or searches (document title and content,      *)
(*          keywords) are written one character per atom; template         *)
(*          literals of f-strings are one atom per literal chunk.          *)
(*   float  an integer number of hundredths (0.7 is 70).                   *)
(*   dict   a function whose domain is the set of keys present.            *)
(*   values that cross a typed boundary (pydantic fields, parsed JSON)     *)
(*          carry their Python type: [t |-> "str", v |-> ...].             *)
(* A call returns [kind |-> "return", value |-> v] or raises               *)
(* [kind |-> "raise", exc |-> name].                                       *)
(***************************************************************************)
EXTENDS Integers, Sequences, FiniteSets, TLC

\* ------------------------------------------------------------------------
\* Bounds of the model (not program constants)
\* ------------------------------------------------------------------------
MaxCalls == 2
MaxTime == 1

\* ------------------------------------------------------------------------
\* Program constants
\* ------------------------------------------------------------------------
max_retries == 3
MIN_CONTENT_LENGTH == 100
MAX_CONTENT_CHARS == 10000
FALLBACK_TITLE_CHARS == 80
FALLBACK_DESCRIPTION_CHARS == 200
MOCK_CONFIDENCE == 70
FALLBACK_CONFIDENCE == 50
DEFAULT_AI_CONFIDENCE == 80
STUB_CONFIDENCE == 50
HTTP_OK == 200

\* ------------------------------------------------------------------------
\* Python values
\* ------------------------------------------------------------------------
PyStr(s) == [t |-> "str", v |-> s]
PyFloat(x) == [t |-> "float", v |-> x]
PyInt(x) == [t |-> "int", v |-> x]
PyList(l) == [t |-> "list", v |-> l]
PyNone == [t |-> "NoneType"]

Return(v) == [kind |-> "return", value |-> v]
Raise(e) == [kind |-> "raise", exc |-> e]
None == [none |-> TRUE]

\* ------------------------------------------------------------------------
\* str operations used by the code
\* ------------------------------------------------------------------------
UPPER == <<"A","B","C","D","E","F","G","H","I","J","K","L","M","N","O","P","Q","R","S","T","U","V","W","X","Y","Z">>
LOWER == <<"a","b","c","d","e","f","g","h","i","j","k","l","m","n","o","p","q","r","s","t","u","v","w","x","y","z">>
Whitespace == {" ", "\n", "\t"}

\* s[:n]
Take(s, n) == SubSeq(s, 1, IF Len(s) < n THEN Len(s) ELSE n)

\* k in s
Contains(s, k) == \E i \in 0..(Len(s) - Len(k)) : SubSeq(s, i + 1, i + Len(k)) = k

\* s.lower()
lower(s) ==
    [i \in 1..Len(s) |->
        IF \E j \in 1..26 : UPPER[j] = s[i]
        THEN LOWER[CHOOSE j \in 1..26 : UPPER[j] = s[i]]
        ELSE s[i]]

\* s.strip()
strip(s) ==
    LET I == {i \in 1..Len(s) : s[i] \notin Whitespace}
    IN  IF I = {} THEN <<>>
        ELSE SubSeq(s, CHOOSE i \in I : \A j \in I : i <= j,
                       CHOOSE i \in I : \A j \in I : i >= j)

\* s.split(c)
RECURSIVE split(_, _)
split(s, c) ==
    IF \A i \in 1..Len(s) : s[i] # c THEN <<s>>
    ELSE LET i == CHOOSE i \in 1..Len(s) : s[i] = c /\ \A j \in 1..(i - 1) : s[j] # c
         IN  <<SubSeq(s, 1, i - 1)>> \o split(SubSeq(s, i + 1, Len(s)), c)

\* s.split(): the whitespace-separated words of s
RECURSIVE split_words(_)
split_words(s) ==
    LET I == {i \in 1..Len(s) : s[i] \notin Whitespace}
    IN  IF I = {} THEN <<>>
        ELSE LET b == CHOOSE i \in I : \A j \in I : i <= j
                 E == {i \in b..Len(s) : s[i] \in Whitespace}
                 e == IF E = {} THEN Len(s) + 1 ELSE CHOOSE i \in E : \A j \in E : i <= j
             IN  <<SubSeq(s, b, e - 1)>> \o split_words(SubSeq(s, e, Len(s)))

\* c.join(parts)
RECURSIVE join(_, _)
join(parts, c) ==
    IF parts = <<>> THEN <<>>
    ELSE IF Len(parts) = 1 THEN parts[1]
    ELSE parts[1] \o <<c>> \o join(Tail(parts), c)

\* [f(x) for x in xs if p(x)] for f = strip, p = non-empty after strip
RECURSIVE stripped_nonblank(_)
stripped_nonblank(xs) ==
    IF xs = <<>> THEN <<>>
    ELSE IF strip(Head(xs)) # <<>> THEN <<strip(Head(xs))>> \o stripped_nonblank(Tail(xs))
    ELSE stripped_nonblank(Tail(xs))

Rep(c, n) == [i \in 1..n |-> c]


\* ------------------------------------------------------------------------
\* json.loads, on the JSON subset: objects, arrays, strings without escapes,
\* numbers without exponent (value kept to two decimals), null/true/false
\* ------------------------------------------------------------------------
DIGITS == <<"0","1","2","3","4","5","6","7","8","9">>
JsonWhitespace == {" ", "\n", "\t", "\r"}
EOF == ""

K_title == <<"t","i","t","l","e">>
K_description == <<"d","e","s","c","r","i","p","t","i","o","n">>
K_category == <<"c","a","t","e","g","o","r","y">>
K_options == <<"o","p","t","i","o","n","s">>
K_confidence == <<"c","o","n","f","i","d","e","n","c","e">>

PyDict(f) == [t |-> "dict", v |-> f]
PyBool(b) == [t |-> "bool", v |-> b]

IsDigit(c) == \E d \in 1..10 : DIGITS[d] = c
DigitVal(c) == (CHOOSE d \in 1..10 : DIGITS[d] = c) - 1
At(s, p) == IF p >= 1 /\ p <= Len(s) THEN s[p] ELSE EOF
MinOf(S) == CHOOSE i \in S : \A j \in S : i <= j
MaxOf(S) == CHOOSE i \in S : \A j \in S : i >= j

skip_ws(s, p) ==
    LET N == {i \in p..Len(s) : s[i] \notin JsonWhitespace}
    IN  IF N = {} THEN Len(s) + 1 ELSE MinOf(N)

digits_end(s, p) ==
    LET N == {i \in p..Len(s) : ~IsDigit(s[i])}
    IN  IF N = {} THEN Len(s) + 1 ELSE MinOf(N)

RECURSIVE digits_val(_, _, _)
digits_val(s, a, b) == IF b <= a THEN 0 ELSE digits_val(s, a, b - 1) * 10 + DigitVal(s[b - 1])

ParseFail == [ok |-> FALSE]
ParseOk(v, p) == [ok |-> TRUE, v |-> v, p |-> p]

parse_string(s, p) ==
    LET Q == {i \in (p + 1)..Len(s) : s[i] = "\""}
    IN  IF At(s, p) # "\"" \/ Q = {} THEN ParseFail
        ELSE ParseOk(PyStr(SubSeq(s, p + 1, MinOf(Q) - 1)), MinOf(Q) + 1)

parse_number(s, p) ==
    LET neg == At(s, p) = "-"
        a == IF neg THEN p + 1 ELSE p
        b == IF At(s, a) = "0" THEN a + 1 ELSE digits_end(s, a)
        sign == IF neg THEN -1 ELSE 1
        c == digits_end(s, b + 1)
    IN  IF b = a THEN ParseFail
        ELSE IF At(s, b) = "." /\ c > b + 1
             THEN ParseOk(PyFloat(sign * (digits_val(s, a, b) * 100
                                          + DigitVal(s[b + 1]) * 10
                                          + (IF c > b + 2 THEN DigitVal(s[b + 2]) ELSE 0))), c)
             ELSE ParseOk(PyInt(sign * digits_val(s, a, b)), b)

parse_literal(s, p) ==
    IF SubSeq(s, p, p + 3) = <<"n","u","l","l">> THEN ParseOk(PyNone, p + 4)
    ELSE IF SubSeq(s, p, p + 3) = <<"t","r","u","e">> THEN ParseOk(PyBool(TRUE), p + 4)
    ELSE IF SubSeq(s, p, p + 4) = <<"f","a","l","s","e">> THEN ParseOk(PyBool(FALSE), p + 5)
    ELSE ParseFail

RECURSIVE parse_value(_, _), parse_items(_, _, _), parse_members(_, _, _)
parse_value(s, p) ==
    LET c == At(s, p)
        q == skip_ws(s, p + 1)
    IN  IF c = "{"
        THEN IF At(s, q) = "}" THEN ParseOk(PyDict(<<>>), q + 1) ELSE parse_members(s, q, <<>>)
        ELSE IF c = "["
        THEN IF At(s, q) = "]" THEN ParseOk(PyList(<<>>), q + 1) ELSE parse_items(s, q, <<>>)
        ELSE IF c = "\"" THEN parse_string(s, p)
        ELSE IF c = "-" \/ IsDigit(c) THEN parse_number(s, p)
        ELSE IF c \in {"n", "t", "f"} /\ p + 3 <= Len(s) THEN parse_literal(s, p)
        ELSE ParseFail

parse_items(s, p, acc) ==
    LET r == parse_value(s, p)
        q == skip_ws(s, r.p)
    IN  IF ~r.ok THEN ParseFail
        ELSE IF At(s, q) = "," THEN parse_items(s, skip_ws(s, q + 1), Append(acc, r.v))
        ELSE IF At(s, q) = "]" THEN ParseOk(PyList(Append(acc, r.v)), q + 1)
        ELSE ParseFail

parse_members(s, p, acc) ==
    LET k == parse_string(s, p)
        q == skip_ws(s, k.p)
        r == parse_value(s, skip_ws(s, q + 1))
        q2 == skip_ws(s, r.p)
        acc2 == (k.v.v :> r.v) @@ acc
    IN  IF ~k.ok THEN ParseFail
        ELSE IF At(s, q) # ":" THEN ParseFail
        ELSE IF ~r.ok THEN ParseFail
        ELSE IF At(s, q2) = "," THEN parse_members(s, skip_ws(s, q2 + 1), acc2)
        ELSE IF At(s, q2) = "}" THEN ParseOk(PyDict(acc2), q2 + 1)
        ELSE ParseFail

json_loads(s) ==
    LET r == parse_value(s, skip_ws(s, 1))
    IN  IF r.ok /\ skip_ws(s, r.p) = Len(s) + 1 THEN Return(r.v) ELSE Raise("JSONDecodeError")

\* ------------------------------------------------------------------------
\* json_from_text
\* ------------------------------------------------------------------------
T_Untitled == <<"U","n","t","i","t","l","e","d">>
T_Yes == <<"Y","e","s">>
T_No == <<"N","o">>

JSON_STUB ==
    PyDict((K_title :> PyStr(T_Untitled)) @@ (K_description :> PyStr(<<>>))
           @@ (K_options :> PyList(<<PyStr(T_Yes), PyStr(T_No)>>))
           @@ (K_confidence :> PyFloat(STUB_CONFIDENCE)))

\* the loop "for end in range(len(text), start, -1)": the first candidate
\* text[start:end] that json.loads accepts, or the outcome of json.loads(text)
\* when the loop is exhausted (start and end are 1-based and inclusive here)
RECURSIVE json_longest_candidate(_, _, _)
json_longest_candidate(text, start, end) ==
    IF end < start THEN json_loads(text)
    ELSE IF json_loads(SubSeq(text, start, end)).kind = "return"
    THEN json_loads(SubSeq(text, start, end))
    ELSE json_longest_candidate(text, start, end - 1)

\* the try block of json_from_text, for a text with a "{" at 1-based start
json_found(r) == IF r.kind = "return" THEN r.value ELSE JSON_STUB

json_from_text(text) ==
    LET S == {i \in 1..Len(text) : text[i] = "{"}
    IN  IF S = {} THEN JSON_STUB
        ELSE json_found(json_longest_candidate(text, MinOf(S), Len(text)))


\* ------------------------------------------------------------------------
\* scrape_content: what it makes of a fetched page.  A page is the parsed
\* HTML after the non-content elements were removed: the text of its
\* <title> (if any), of its <article>/<main> region (if any) and of the
\* whole document.
\* ------------------------------------------------------------------------
urlparse(url) == [scheme |-> url[1], netloc |-> url[2], path |-> url[3]]

\* mutant: the HTTP status is never checked
raise_for_status_unchecked(status_code) == FALSE

raise_for_status(status_code) == status_code >= 400 /\ status_code < 600

extract_document(page, url) ==
    LET title == IF page.title_tag # <<>> THEN strip(page.title_tag[1]) ELSE T_Untitled
        text == IF page.article # <<>> THEN page.article[1] ELSE page.text
        lines == stripped_nonblank(split(text, "\n"))
        content == Take(join(lines, "\n"), MAX_CONTENT_CHARS)
    IN  [title |-> title, content |-> content, domain |-> urlparse(url).netloc, url |-> url]

\* mutant: an HTTP error status is retried like a connection failure
scrape_attempt_retrying_http_errors(url, attempt, outcome) ==
    IF outcome.kind = "ConnectionError"
       \/ (outcome.kind = "response" /\ raise_for_status(outcome.status_code))
    THEN IF attempt < max_retries - 1
         THEN [next |-> "retry"]
         ELSE [next |-> "return", value |-> None]
    ELSE IF outcome.kind # "response" THEN [next |-> "return", value |-> None]
    ELSE [next |-> "return", value |-> extract_document(outcome.page, url)]

\* mutant: a connection failure is retried once more
scrape_attempt_retrying_once_more(url, attempt, outcome) ==
    IF outcome.kind = "ConnectionError"
    THEN IF attempt < max_retries
         THEN [next |-> "retry"]
         ELSE [next |-> "return", value |-> None]
    ELSE IF outcome.kind # "response" THEN [next |-> "return", value |-> None]
    ELSE IF raise_for_status(outcome.status_code) THEN [next |-> "return", value |-> None]
    ELSE [next |-> "return", value |-> extract_document(outcome.page, url)]

\* One GET of scrape_content: what the attempt-th iteration of the retry
\* loop does with the outcome of requests.get
\*   [next |-> "retry"]                 sleep and try again
\*   [next |-> "return", value |-> v]   scrape_content returns v
scrape_attempt(url, attempt, outcome) ==
    IF outcome.kind = "ConnectionError"
    THEN IF attempt < max_retries - 1
         THEN [next |-> "retry"]
         ELSE [next |-> "return", value |-> None]
    ELSE IF outcome.kind # "response" THEN [next |-> "return", value |-> None]
    ELSE IF raise_for_status(outcome.status_code) THEN [next |-> "return", value |-> None]
    ELSE [next |-> "return", value |-> extract_document(outcome.page, url)]

\* ------------------------------------------------------------------------
\* PredictionEvent (pydantic model): every field is required
\* ------------------------------------------------------------------------
PredictionEventFields ==
    {"title", "description", "category", "options", "confidence", "source_url", "resolution_date"}

IsListOfStr(x) == x.t = "list" /\ \A i \in 1..Len(x.v) : x.v[i].t = "str"

\* mutant: resolution_date may be left out (it is then None)
PredictionEvent_with_optional_deadline(kwargs) ==
    IF /\ (PredictionEventFields \ {"resolution_date"}) \subseteq DOMAIN kwargs
       /\ \A f \in {"title", "description", "category", "source_url"} : kwargs[f].t = "str"
       /\ "resolution_date" \in DOMAIN kwargs => kwargs["resolution_date"].t = "str"
       /\ IsListOfStr(kwargs["options"])
       /\ kwargs["confidence"].t \in {"float", "int"}
    THEN Return([cls |-> "PredictionEvent",
                 fields |-> [f \in PredictionEventFields |->
                                IF f \notin DOMAIN kwargs THEN PyNone
                                ELSE IF f = "confidence" /\ kwargs[f].t = "int"
                                THEN PyFloat(kwargs[f].v * 100) ELSE kwargs[f]]])
    ELSE Raise("ValidationError")

PredictionEvent(kwargs) ==
    IF /\ PredictionEventFields \subseteq DOMAIN kwargs
       /\ \A f \in {"title", "description", "category", "source_url", "resolution_date"} :
              kwargs[f].t = "str"
       /\ IsListOfStr(kwargs["options"])
       /\ kwargs["confidence"].t \in {"float", "int"}
    THEN Return([cls |-> "PredictionEvent",
                 fields |-> [f \in PredictionEventFields |->
                                IF f = "confidence" /\ kwargs[f].t = "int"
                                THEN PyFloat(kwargs[f].v * 100) ELSE kwargs[f]]])
    ELSE Raise("ValidationError")

\* json.loads(event.model_dump_json())
model_dump(event) == event.fields

\* ------------------------------------------------------------------------
\* analyze_with_ai, deterministic branch (ai_mock or no client)
\* ------------------------------------------------------------------------
KW_github_universe == <<"g","i","t","h","u","b"," ","u","n","i","v","e","r","s","e">>
KW_snap == <<"s","n","a","p">>
KW_snap_benefits == <<"s","n","a","p"," ","b","e","n","e","f","i","t","s">>
KW_doordash == <<"d","o","o","r","d","a","s","h">>
KW_trump == <<"t","r","u","m","p">>
KW_pardon == <<"p","a","r","d","o","n">>
KW_binance == <<"b","i","n","a","n","c","e">>
KW_robot == <<"r","o","b","o","t">>
KW_ai == <<"a","i">>
KW_artificial_intelligence == <<"a","r","t","i","f","i","c","i","a","l"," ","i","n","t","e","l","l","i","g","e","n","c","e">>
KW_luxury == <<"l","u","x","u","r","y">>
KW_theft == <<"t","h","e","f","t">>
KW_grand_prix == <<"g","r","a","n","d"," ","p","r","i","x">>

END_OF_2025 == <<"2025-12-31T23:59:00-05:00">>

Opts(a) == PyList([i \in 1..Len(a) |-> PyStr(<<a[i]>>)])

\* mutant: the SNAP rule is tried before the GitHub Universe rule
mock_template_snap_first(scraped) ==
    LET article_title == lower(scraped.title)
        content == lower(scraped.content)
        title_words == Take(split_words(scraped.title), 3)
    IN  IF Contains(article_title, KW_snap) \/ Contains(content, KW_snap_benefits)
                \/ Contains(content, KW_doordash)
        THEN [title |-> <<"Will SNAP benefits mentioned in the article be exhausted by November 1, 2025?">>,
              description |-> <<"Based on the article titled '">> \o scraped.title
                              \o <<"', will SNAP benefits run out by Nov 1, 2025?">>,
              options |-> <<"Yes, benefits exhausted by Nov 1, 2025", "No, benefits remain on Nov 1, 2025">>,
              resolution_date |-> <<"2025-11-01T23:59:00-05:00">>]
        ELSE IF Contains(article_title, KW_github_universe) \/ Contains(content, KW_github_universe)
        THEN [title |-> <<"Will GitHub Universe 2025 exceed 4,000 attendees?">>,
              description |-> <<"Based on the article about GitHub Universe October 28-29, 2025 in San Francisco, will the conference exceed its projected 3,700 attendees to reach 4,000+ participants?">>,
              options |-> <<"Yes, over 4,000 attendees", "No, under 4,000 attendees", "Exactly 3,700 attendees">>,
              resolution_date |-> <<"2025-10-29T23:59:00-07:00">>]
        ELSE IF Contains(article_title, KW_trump) \/ Contains(content, KW_pardon)
                \/ Contains(content, KW_binance)
        THEN [title |-> <<"Will Trump's crypto pardons impact Bitcoin price by December 2025?">>,
              description |-> <<"Based on the article about Trump's crypto policy decisions, will Bitcoin exceed $100,000 by December 2025?">>,
              options |-> <<"Yes, Bitcoin over $100k", "No, Bitcoin under $100k", "Bitcoin exactly $100k">>,
              resolution_date |-> END_OF_2025]
        ELSE IF Contains(article_title, KW_robot) \/ Contains(article_title, KW_ai)
                \/ Contains(content, KW_artificial_intelligence)
        THEN [title |-> <<"Will AI robotics funding exceed $50B in 2025?">>,
              description |-> <<"Based on the article about AI and robotics developments, will total AI robotics funding exceed $50 billion in 2025?">>,
              options |-> <<"Yes, over $50B funding", "No, under $50B funding">>,
              resolution_date |-> END_OF_2025]
        ELSE IF Contains(article_title, KW_luxury) \/ Contains(content, KW_theft)
                \/ Contains(content, KW_grand_prix)
        THEN [title |-> <<"Will luxury watch thefts at major events increase by 25% in 2025?">>,
              description |-> <<"Based on the article about luxury watch thefts, will similar crimes at major sporting events increase by 25% or more in 2025?">>,
              options |-> <<"Yes, 25%+ increase", "No, less than 25% increase">>,
              resolution_date |-> END_OF_2025]
        ELSE IF Len(title_words) >= 2
        THEN [title |-> <<"Will the events described in '">> \o join(title_words, " ")
                        \o <<"...' occur as predicted?">>,
              description |-> <<"Based on the article titled '">> \o scraped.title
                              \o <<"', will the main predictions or events described come to fruition?">>,
              options |-> <<"Yes, events will occur", "No, events will not occur", "Partially accurate">>,
              resolution_date |-> END_OF_2025]
        ELSE [title |-> <<"Will this article's predictions prove accurate?">>,
              description |-> <<"Based on the content analysis, will the main claims or predictions in this article prove to be accurate?">>,
              options |-> <<"Yes, accurate", "No, inaccurate", "Partially accurate">>,
              resolution_date |-> END_OF_2025]

mock_template(scraped) ==
    LET article_title == lower(scraped.title)
        content == lower(scraped.content)
        title_words == Take(split_words(scraped.title), 3)
    IN  IF Contains(article_title, KW_github_universe) \/ Contains(content, KW_github_universe)
        THEN [title |-> <<"Will GitHub Universe 2025 exceed 4,000 attendees?">>,
              description |-> <<"Based on the article about GitHub Universe October 28-29, 2025 in San Francisco, will the conference exceed its projected 3,700 attendees to reach 4,000+ participants?">>,
              options |-> <<"Yes, over 4,000 attendees", "No, under 4,000 attendees", "Exactly 3,700 attendees">>,
              resolution_date |-> <<"2025-10-29T23:59:00-07:00">>]
        ELSE IF Contains(article_title, KW_snap) \/ Contains(content, KW_snap_benefits)
                \/ Contains(content, KW_doordash)
        THEN [title |-> <<"Will SNAP benefits mentioned in the article be exhausted by November 1, 2025?">>,
              description |-> <<"Based on the article titled '">> \o scraped.title
                              \o <<"', will SNAP benefits run out by Nov 1, 2025?">>,
              options |-> <<"Yes, benefits exhausted by Nov 1, 2025", "No, benefits remain on Nov 1, 2025">>,
              resolution_date |-> <<"2025-11-01T23:59:00-05:00">>]
        ELSE IF Contains(article_title, KW_trump) \/ Contains(content, KW_pardon)
                \/ Contains(content, KW_binance)
        THEN [title |-> <<"Will Trump's crypto pardons impact Bitcoin price by December 2025?">>,
              description |-> <<"Based on the article about Trump's crypto policy decisions, will Bitcoin exceed $100,000 by December 2025?">>,
              options |-> <<"Yes, Bitcoin over $100k", "No, Bitcoin under $100k", "Bitcoin exactly $100k">>,
              resolution_date |-> END_OF_2025]
        ELSE IF Contains(article_title, KW_robot) \/ Contains(article_title, KW_ai)
                \/ Contains(content, KW_artificial_intelligence)
        THEN [title |-> <<"Will AI robotics funding exceed $50B in 2025?">>,
              description |-> <<"Based on the article about AI and robotics developments, will total AI robotics funding exceed $50 billion in 2025?">>,
              options |-> <<"Yes, over $50B funding", "No, under $50B funding">>,
              resolution_date |-> END_OF_2025]
        ELSE IF Contains(article_title, KW_luxury) \/ Contains(content, KW_theft)
                \/ Contains(content, KW_grand_prix)
        THEN [title |-> <<"Will luxury watch thefts at major events increase by 25% in 2025?">>,
              description |-> <<"Based on the article about luxury watch thefts, will similar crimes at major sporting events increase by 25% or more in 2025?">>,
              options |-> <<"Yes, 25%+ increase", "No, less than 25% increase">>,
              resolution_date |-> END_OF_2025]
        ELSE IF Len(title_words) >= 2
        THEN [title |-> <<"Will the events described in '">> \o join(title_words, " ")
                        \o <<"...' occur as predicted?">>,
              description |-> <<"Based on the article titled '">> \o scraped.title
                              \o <<"', will the main predictions or events described come to fruition?">>,
              options |-> <<"Yes, events will occur", "No, events will not occur", "Partially accurate">>,
              resolution_date |-> END_OF_2025]
        ELSE [title |-> <<"Will this article's predictions prove accurate?">>,
              description |-> <<"Based on the content analysis, will the main claims or predictions in this article prove to be accurate?">>,
              options |-> <<"Yes, accurate", "No, inaccurate", "Partially accurate">>,
              resolution_date |-> END_OF_2025]

\* mutant: the event is built without its resolution deadline
analyze_mock_without_deadline(scraped, category) ==
    LET tpl == mock_template(scraped)
    IN  PredictionEvent([title |-> PyStr(tpl.title),
                         description |-> PyStr(tpl.description),
                         category |-> PyStr(category),
                         options |-> Opts(tpl.options),
                         confidence |-> PyFloat(MOCK_CONFIDENCE),
                         source_url |-> PyStr(scraped.url)])

analyze_mock(scraped, category) ==
    LET tpl == mock_template(scraped)
    IN  PredictionEvent([title |-> PyStr(tpl.title),
                         description |-> PyStr(tpl.description),
                         category |-> PyStr(category),
                         options |-> Opts(tpl.options),
                         confidence |-> PyFloat(MOCK_CONFIDENCE),
                         source_url |-> PyStr(scraped.url),
                         resolution_date |-> PyStr(tpl.resolution_date)])


\* ------------------------------------------------------------------------
\* analyze_with_ai, generative branch.  The outcome of
\* openai.ChatCompletion.create is [kind |-> "raise"] or
\* [kind |-> "response", choices |-> <<choice, ...>>]; a choice is
\* [message |-> <<>> or <<[content |-> opt]>>, text |-> opt] and an opt is
\* <<>> (None) or <<s>> (the str s).
\* ------------------------------------------------------------------------
completion_text(completion) ==
    IF Len(completion.choices) > 0
    THEN LET ch == completion.choices[1]
         IN  IF ch.message # <<>> THEN ch.message[1].content ELSE ch.text
    ELSE <<>>

dict_get(d, k, default) == IF k \in DOMAIN d.v THEN d.v[k] ELSE default

\* float(x)
py_float(x) ==
    IF x.t = "float" THEN Return(x)
    ELSE IF x.t = "int" THEN Return(PyFloat(x.v * 100))
    ELSE IF x.t = "bool" THEN Return(PyFloat(IF x.v THEN 100 ELSE 0))
    ELSE IF x.t = "str" THEN Raise("ValueError")
    ELSE Raise("TypeError")

\* the PredictionEvent(...) call of the try block, given the parsed reply and
\* the outcome of float(parsed.get('confidence', 0.8))
generative_event(scraped, category, parsed, confidence) ==
    IF K_title \notin DOMAIN parsed.v \/ K_description \notin DOMAIN parsed.v
       \/ K_options \notin DOMAIN parsed.v THEN Raise("KeyError")
    ELSE IF confidence.kind = "raise" THEN confidence
    ELSE PredictionEvent([title |-> parsed.v[K_title],
                          description |-> parsed.v[K_description],
                          category |-> dict_get(parsed, K_category, PyStr(category)),
                          options |-> parsed.v[K_options],
                          confidence |-> confidence.value,
                          source_url |-> PyStr(scraped.url)])

\* the try block from parsed = json_from_text(text) on
generative_parsed(scraped, category, parsed) ==
    IF parsed.t # "dict" THEN Raise("TypeError")
    ELSE generative_event(scraped, category, parsed,
             py_float(dict_get(parsed, K_confidence, PyFloat(DEFAULT_AI_CONFIDENCE))))

\* the try block from the extraction of the reply's text on
generative_text(scraped, category, text) ==
    IF text = <<>> \/ text[1] = <<>> THEN Raise("RuntimeError")
    ELSE generative_parsed(scraped, category, json_from_text(text[1]))

generative_try(scraped, category, completion) ==
    IF completion.kind = "raise" THEN Raise("APIError")
    ELSE generative_text(scraped, category, completion_text(completion))

generative_fallback(scraped, category) ==
    PredictionEvent([title |-> PyStr(<<"Prediction: ">> \o Take(scraped.title, FALLBACK_TITLE_CHARS) \o <<"?">>),
                     description |-> PyStr(Take(scraped.content, FALLBACK_DESCRIPTION_CHARS)),
                     category |-> PyStr(category),
                     options |-> PyList(<<PyStr(T_Yes), PyStr(T_No)>>),
                     confidence |-> PyFloat(FALLBACK_CONFIDENCE),
                     source_url |-> PyStr(scraped.url)])

\* the except branch is taken when the try block raised
generative_outcome(scraped, category, r) ==
    IF r.kind = "return" THEN r ELSE generative_fallback(scraped, category)

analyze_generative(scraped, category, completion) ==
    generative_outcome(scraped, category, generative_try(scraped, category, completion))

\* analyze_with_ai(scraped, category, ai_mock); client is the module global
\* openai (FALSE when it is None), completion the outcome of the completion
\* call (read on the generative branch only)
analyze_with_ai(scraped, category, ai_mock, client, completion) ==
    IF ai_mock \/ ~client
    THEN analyze_mock(scraped, category)
    ELSE analyze_generative(scraped, category, completion)

\* ------------------------------------------------------------------------
\* url_scraper.py: its PredictionEvent (no resolution_date) and its
\* analyze_with_ai(scraped, category).  client is the module global
\* openai_client (FALSE when it is None).  The confidence of the reply goes
\* to the model unconverted; the replies considered carry JSON numbers.
\* ------------------------------------------------------------------------
URL_SCRAPER_TITLE_CHARS == 80
URL_SCRAPER_DESCRIPTION_CHARS == 200
URL_SCRAPER_NO_CLIENT_CONFIDENCE == 50
URL_SCRAPER_DEFAULT_CONFIDENCE == 80
URL_SCRAPER_FALLBACK_TITLE_CHARS == 60
URL_SCRAPER_FALLBACK_CONFIDENCE == 60

T_Likely == <<"L","i","k","e","l","y">>
T_Unlikely == <<"U","n","l","i","k","e","l","y">>

url_scraper_PredictionEventFields ==
    {"title", "description", "category", "options", "confidence", "source_url"}

url_scraper_PredictionEvent(kwargs) ==
    IF /\ url_scraper_PredictionEventFields \subseteq DOMAIN kwargs
       /\ \A f \in {"title", "description", "category", "source_url"} : kwargs[f].t = "str"
       /\ IsListOfStr(kwargs["options"])
       /\ kwargs["confidence"].t \in {"float", "int"}
    THEN Return([cls |-> "url_scraper.PredictionEvent",
                 fields |-> [f \in url_scraper_PredictionEventFields |->
                                IF f = "confidence" /\ kwargs[f].t = "int"
                                THEN PyFloat(kwargs[f].v * 100) ELSE kwargs[f]]])
    ELSE Raise("ValidationError")

\* the branch "if not openai_client"
url_scraper_without_client(scraped, category) ==
    url_scraper_PredictionEvent(
        [title |-> PyStr(<<"Prediction: ">> \o Take(scraped.title, URL_SCRAPER_TITLE_CHARS) \o <<"?">>),
         description |-> PyStr(Take(scraped.content, URL_SCRAPER_DESCRIPTION_CHARS) \o <<"...">>),
         category |-> PyStr(category),
         options |-> PyList(<<PyStr(T_Yes), PyStr(T_No)>>),
         confidence |-> PyFloat(URL_SCRAPER_NO_CLIENT_CONFIDENCE),
         source_url |-> PyStr(scraped.url)])

\* the try block from result = json.loads(...) on; r is the outcome of json.loads
url_scraper_result(scraped, category, r) ==
    IF r.kind = "raise" THEN r
    ELSE IF r.value.t # "dict" THEN Raise("TypeError")
    ELSE IF K_title \notin DOMAIN r.value.v \/ K_description \notin DOMAIN r.value.v
            \/ K_options \notin DOMAIN r.value.v THEN Raise("KeyError")
    ELSE url_scraper_PredictionEvent(
             [title |-> r.value.v[K_title],
              description |-> r.value.v[K_description],
              category |-> dict_get(r.value, K_category, PyStr(category)),
              options |-> r.value.v[K_options],
              confidence |-> dict_get(r.value, K_confidence,
                                      PyFloat(URL_SCRAPER_DEFAULT_CONFIDENCE)),
              source_url |-> PyStr(scraped.url)])

\* response.choices[0].message.content
url_scraper_content(completion) ==
    IF completion.kind = "raise" THEN Raise("APIError")
    ELSE IF Len(completion.choices) = 0 THEN Raise("IndexError")
    ELSE IF completion.choices[1].message = <<>> THEN Raise("AttributeError")
    ELSE Return(completion.choices[1].message[1].content)

\* json.loads(content): content is <<>> (None) or <<s>>
url_scraper_loads(content) ==
    IF content.kind = "raise" THEN content
    ELSE IF content.value = <<>> THEN Raise("TypeError")
    ELSE json_loads(content.value[1])

url_scraper_try(scraped, category, completion) ==
    url_scraper_result(scraped, category, url_scraper_loads(url_scraper_content(completion)))

url_scraper_fallback(scraped, category) ==
    url_scraper_PredictionEvent(
        [title |-> PyStr(<<"Prediction about: ">>
                         \o Take(scraped.title, URL_SCRAPER_FALLBACK_TITLE_CHARS)),
         description |-> PyStr(Take(scraped.content, URL_SCRAPER_DESCRIPTION_CHARS)),
         category |-> PyStr(category),
         options |-> PyList(<<PyStr(T_Likely), PyStr(T_Unlikely)>>),
         confidence |-> PyFloat(URL_SCRAPER_FALLBACK_CONFIDENCE),
         source_url |-> PyStr(scraped.url)])

\* the except branch is taken when the try block raised
url_scraper_outcome(scraped, category, r) ==
    IF r.kind = "return" THEN r ELSE url_scraper_fallback(scraped, category)

url_scraper_analyze_with_ai(scraped, category, client, completion) ==
    IF ~client
    THEN url_scraper_without_client(scraped, category)
    ELSE url_scraper_outcome(scraped, category, url_scraper_try(scraped, category, completion))

\* ------------------------------------------------------------------------
\* create_market
\* ------------------------------------------------------------------------
BLOCKCHAIN_URL == "http://localhost:3000"

K_id == <<"i","d">>
K_market_id == <<"m","a","r","k","e","t","_","i","d">>
K_marketId == <<"m","a","r","k","e","t","I","d">>
K_event_id == <<"e","v","e","n","t","_","i","d">>

\* bool(x)
Truthy(x) ==
    IF x.t = "NoneType" THEN FALSE
    ELSE IF x.t = "bool" THEN x.v
    ELSE IF x.t \in {"int", "float"} THEN x.v # 0
    ELSE IF x.t \in {"str", "list"} THEN x.v # <<>>
    ELSE DOMAIN x.v # {}

\* a or b
Or(a, b) == IF Truthy(a) THEN a ELSE b

\* str(x) inside an f-string
str(x) == IF x.t = "str" THEN x.v ELSE IF x.t = "NoneType" THEN <<"None">> ELSE <<ToString(x.v)>>

market_payload(event) ==
    [source |-> [domain |-> urlparse(event.fields.source_url.v).netloc,
                 url |-> event.fields.source_url],
     event |-> [title |-> event.fields.title,
                description |-> event.fields.description,
                category |-> event.fields.category,
                options |-> event.fields.options,
                confidence |-> event.fields.confidence,
                source_url |-> event.fields.source_url,
                resolution_date |-> event.fields.resolution_date]]

\* mutant: dry_run is ignored
market_is_simulated_ignoring_dry_run(allow, dry_run) == ~allow

\* mutant: ALLOW_CREATE_MARKET is ignored
market_is_simulated_ignoring_allow(allow, dry_run) == dry_run

\* the branch taken before any request: simulation or live
market_is_simulated(allow, dry_run) == ~allow \/ dry_run

market_simulation(payload, t) ==
    LET sim_id == <<"SIM-", ToString(t)>>
    IN  [success |-> TRUE,
         market_id |-> PyStr(sim_id),
         mode |-> "simulation",
         message |-> <<"Market simulated with ID: ">> \o sim_id,
         payload |-> payload]

\* the except clauses of create_market, for an exception raised by a request
market_request_failed(outcome, payload) ==
    IF outcome.kind = "ConnectionError"
    THEN [success |-> FALSE,
          error |-> <<"Cannot connect to blockchain at ", BLOCKCHAIN_URL, ": ", outcome.kind>>,
          mode |-> "blockchain", payload |-> payload]
    ELSE IF outcome.kind = "Timeout"
    THEN [success |-> FALSE,
          error |-> <<"Blockchain request timed out: ", outcome.kind>>,
          mode |-> "blockchain", payload |-> payload]
    ELSE [success |-> FALSE,
          error |-> <<"Unexpected blockchain error: ", outcome.kind>>,
          mode |-> "blockchain", payload |-> payload]

\* mutant: the status of the probe is not looked at
health_passed_always(status_code) == TRUE

health_passed(status_code) == status_code = HTTP_OK

\* after GET /health: [next |-> "post"] or [next |-> "return", value |-> result]
market_after_health(outcome, payload) ==
    IF outcome.kind # "response"
    THEN [next |-> "return", value |-> market_request_failed(outcome, payload)]
    ELSE IF ~health_passed(outcome.status_code)
    THEN [next |-> "return",
          value |-> [success |-> FALSE,
                     error |-> <<"Blockchain health check failed: ", ToString(outcome.status_code)>>,
                     mode |-> "blockchain", payload |-> payload]]
    ELSE [next |-> "post"]

\* mutant: the keys are tried in the opposite order
response_market_id_reversed(data) ==
    Or(Or(Or(dict_get(data, K_event_id, PyNone), dict_get(data, K_marketId, PyNone)),
          dict_get(data, K_market_id, PyNone)),
       dict_get(data, K_id, PyNone))

response_market_id(data) ==
    Or(Or(Or(dict_get(data, K_id, PyNone), dict_get(data, K_market_id, PyNone)),
          dict_get(data, K_marketId, PyNone)),
       dict_get(data, K_event_id, PyNone))

\* after POST /ai/events
market_after_post(outcome, payload) ==
    LET data == json_loads(outcome.text)
        market_id == response_market_id(data.value)
    IN  IF outcome.kind # "response" THEN market_request_failed(outcome, payload)
        ELSE IF raise_for_status(outcome.status_code)
        THEN [success |-> FALSE,
              error |-> <<"Blockchain HTTP error ", ToString(outcome.status_code), ": ">> \o outcome.text,
              mode |-> "blockchain",
              status_code |-> outcome.status_code,
              response_text |-> outcome.text,
              payload |-> payload]
        ELSE IF data.kind = "raise"
        THEN market_request_failed([kind |-> data.exc], payload)
        ELSE IF data.value.t # "dict"
        THEN market_request_failed([kind |-> "AttributeError"], payload)
        ELSE IF Truthy(market_id)
        THEN [success |-> TRUE,
              market_id |-> market_id,
              mode |-> "blockchain",
              message |-> <<"Event created successfully on blockchain: ">> \o str(market_id),
              blockchain_response |-> data.value,
              payload |-> payload]
        ELSE [success |-> FALSE,
              error |-> <<"Blockchain returned success but no event ID found">>,
              mode |-> "blockchain",
              blockchain_response |-> data.value,
              payload |-> payload]


\* ------------------------------------------------------------------------
\* url_scraper.py: scrape_content, create_market and the POST /scrape handler
\* ------------------------------------------------------------------------
URL_SCRAPER_MAX_CONTENT_CHARS == 5000
URL_SCRAPER_HTTP_OK == 200

\* the try block of scrape_content from the parsing of the page on
url_scraper_extract_document(page, url) ==
    [title |-> IF page.title_tag # <<>> THEN strip(page.title_tag[1]) ELSE T_Untitled,
     content |-> Take(join(stripped_nonblank(split(page.text, "\n")), "\n"),
                      URL_SCRAPER_MAX_CONTENT_CHARS),
     domain |-> urlparse(url).netloc,
     url |-> url]

\* scrape_content: whatever goes wrong is raised as an HTTPException (400)
url_scraper_scrape_content(url, outcome) ==
    IF outcome.kind # "response" THEN Raise("HTTPException")
    ELSE IF raise_for_status(outcome.status_code) THEN Raise("HTTPException")
    ELSE Return(url_scraper_extract_document(outcome.page, url))

\* create_market from the answer to POST /api/markets/create on: what
\* result.get('id') gives, None where the code returns None
url_scraper_create_market(outcome) ==
    IF outcome.kind # "response" THEN PyNone
    ELSE IF outcome.status_code # URL_SCRAPER_HTTP_OK THEN PyNone
    ELSE IF json_loads(outcome.text).kind = "raise" THEN PyNone
    ELSE IF json_loads(outcome.text).value.t # "dict" THEN PyNone
    ELSE dict_get(json_loads(outcome.text).value, K_id, PyNone)

\* ScrapeResponse(success, market_id=None, event=None, message):
\* market_id is Optional[str]
ScrapeResponse(kwargs) ==
    IF kwargs.market_id.t \in {"str", "NoneType"}
    THEN Return([cls |-> "ScrapeResponse", fields |-> kwargs])
    ELSE Raise("ValidationError")

\* the except branch of scrape_url
scrape_url_error(exc) ==
    [cls |-> "ScrapeResponse",
     fields |-> [success |-> FALSE, market_id |-> PyNone, event |-> None,
                 message |-> <<"Error: ", exc>>]]

\* scrape_url, from the return of create_market to the end of the try block
scrape_url_after_market(url, ev, market_id) ==
    IF Truthy(market_id)
    THEN ScrapeResponse([success |-> TRUE, market_id |-> market_id, event |-> ev,
                         message |-> <<"Market created from ", urlparse(url).netloc>>])
    ELSE ScrapeResponse([success |-> FALSE, market_id |-> PyNone, event |-> ev,
                         message |-> <<"Event analyzed but market creation failed">>])

\* scrape_url: what the handler returns when its try block came to r
scrape_url_return(r) == IF r.kind = "return" THEN r.value ELSE scrape_url_error(r.exc)


\* ------------------------------------------------------------------------
\* run_pipeline, parse_url, main: the straight-line code between two
\* network calls, as functions of the locals
\*   s = [pc, attempt, out, analysis, event, payload, result, response, market_result,
\*        test_result, exit_code, files, written]
\* c is the invocation: [entry, url, category, ai_mock, create_market_flag,
\* dry_run, json]
\* ------------------------------------------------------------------------
NotSet == [unset |-> TRUE]

run_id(stamp) == <<"run_", ToString(stamp)>>

\* mutant: the file is opened and nothing is dumped into it
write_file_left_empty(fs, name, doc) == (name :> <<>>) @@ fs

\* open(os.path.join(save_dir, name), 'w'); json.dump(doc, f)
write_file(fs, name, doc) == (name :> doc) @@ fs

\* mutant: an exception out of run_pipeline is reported as "No event found"
parse_url_response_hiding_errors(c, res) ==
    IF res.kind = "return" /\ res.value # None /\ "event" \in DOMAIN res.value
    THEN [status |-> "success", event_found |-> TRUE,
          event |-> res.value["event"], source_url |-> c.url,
          run_id |-> res.value["run_id"]]
    ELSE [status |-> "success", event_found |-> FALSE,
          message |-> <<"No event found">>, source_url |-> c.url]

\* parse_url, from the return of run_pipeline on
parse_url_response(c, res) ==
    IF res.kind = "raise"
    THEN [status |-> "error", event_found |-> FALSE, error |-> <<res.exc>>, source_url |-> c.url]
    ELSE IF res.value # None /\ "event" \in DOMAIN res.value /\ DOMAIN res.value["event"] # {}
    THEN LET base == [status |-> "success", event_found |-> TRUE,
                      event |-> res.value["event"], source_url |-> c.url,
                      run_id |-> res.value["run_id"]]
         IN  IF c.create_market_flag /\ "market_result" \in DOMAIN res.value
             THEN base @@ [market_result |-> res.value["market_result"],
                           market_id |-> IF "market_id" \in DOMAIN res.value
                                         THEN res.value["market_id"] ELSE None]
             ELSE base
    ELSE [status |-> "success", event_found |-> FALSE,
          message |-> <<"No event found">>, source_url |-> c.url]

\* run_pipeline returns (or raises) res; parse_url builds its response; main,
\* when it is the caller, prints it and ends
pipeline_return(c, s, res) ==
    [s EXCEPT !.pc = "idle",
              !.result = res,
              !.response = parse_url_response(c, res),
              !.exit_code = IF c.entry = "main" THEN <<0>> ELSE <<>>]

\* mutant: a failed market creation makes run_pipeline return None
pipeline_after_market_abort_on_failure(c, s, market_result) ==
    LET o == [market_result |-> market_result] @@ s.out
        o2 == [market_id |-> market_result.market_id]
              @@ [o EXCEPT !.steps = Append(@, "market_created")]
    IN  IF market_result.success
        THEN pipeline_return(c, [s EXCEPT !.out = o2, !.market_result = market_result], Return(o2))
        ELSE pipeline_return(c, [s EXCEPT !.market_result = market_result], Return(None))

\* mutant: a created market is not recorded among the steps
pipeline_after_market_step_unrecorded(c, s, market_result) ==
    LET o == [market_result |-> market_result] @@ s.out
        o2 == IF market_result.success
              THEN [market_id |-> market_result.market_id] @@ o
              ELSE [o EXCEPT !.steps = Append(@, "market_failed")]
        s2 == [s EXCEPT !.out = o2, !.market_result = market_result]
    IN  pipeline_return(c, s2, Return(o2))

\* run_pipeline, from the return of create_market on
pipeline_after_market(c, s, market_result) ==
    LET o == [market_result |-> market_result] @@ s.out
        o2 == IF market_result.success
              THEN [market_id |-> market_result.market_id]
                   @@ [o EXCEPT !.steps = Append(@, "market_created")]
              ELSE [o EXCEPT !.steps = Append(@, "market_failed")]
        s2 == [s EXCEPT !.out = o2, !.market_result = market_result]
    IN  pipeline_return(c, s2, Return(o2))

\* create_market returns market_result to its caller
market_return(c, s, market_result) ==
    IF c.entry = "create_market"
    THEN [s EXCEPT !.pc = "idle", !.market_result = market_result]
    ELSE pipeline_after_market(c, s, market_result)

\* create_market up to its first request
create_market(c, s, ev, dry_run, allow, t) ==
    LET payload == market_payload(ev)
        s2 == [s EXCEPT !.event = ev, !.payload = payload]
    IN  IF market_is_simulated(allow, dry_run)
        THEN market_return(c, s2, market_simulation(payload, t))
        ELSE [s2 EXCEPT !.pc = "health"]

\* mutant: 'analyzed' is not recorded
pipeline_after_analysis_unrecorded(c, s, analysis, allow, t) ==
    IF analysis.kind = "raise"
    THEN pipeline_return(c, [s EXCEPT !.analysis = analysis], Return(None))
    ELSE LET ev == analysis.value
             o == [event |-> model_dump(ev)] @@ s.out
             s2 == [s EXCEPT !.out = o,
                             !.analysis = analysis,
                             !.event = ev,
                             !.files = write_file(@, o.run_id \o <<"_event.json">>, o.event),
                             !.written = Append(@, o.run_id \o <<"_event.json">>)]
         IN  IF c.create_market_flag
             THEN create_market(c, s2, ev, ~allow, allow, t)
             ELSE pipeline_return(c, s2, Return(o))

\* run_pipeline, from the return of analyze_with_ai on
pipeline_after_analysis(c, s, analysis, allow, t) ==
    IF analysis.kind = "raise"
    THEN pipeline_return(c, [s EXCEPT !.analysis = analysis], Return(None))
    ELSE LET ev == analysis.value
             o == [event |-> model_dump(ev)] @@ [s.out EXCEPT !.steps = Append(@, "analyzed")]
             s2 == [s EXCEPT !.out = o,
                             !.analysis = analysis,
                             !.event = ev,
                             !.files = write_file(@, o.run_id \o <<"_event.json">>, o.event),
                             !.written = Append(@, o.run_id \o <<"_event.json">>)]
         IN  IF c.create_market_flag
             THEN create_market(c, s2, ev, ~allow, allow, t)
             ELSE pipeline_return(c, s2, Return(o))

\* mutant: the threshold is one character lower
content_too_short_below_99(scraped) == Len(scraped.content) < MIN_CONTENT_LENGTH - 1

\* the content-length check of step 2
content_too_short(scraped) == Len(scraped.content) < MIN_CONTENT_LENGTH

\* mutant: the document is persisted only after the content-length check
pipeline_after_scrape_persisting_late(c, s, scraped, client, allow, t) ==
    IF scraped = None
    THEN pipeline_return(c, s, Return(None))
    ELSE LET o == [scraped |-> scraped] @@ [s.out EXCEPT !.steps = Append(@, "scraped")]
             s1 == [s EXCEPT !.out = o]
             s2 == [s EXCEPT !.out = o,
                             !.files = write_file(@, o.run_id \o <<"_scraped.json">>, scraped),
                             !.written = Append(@, o.run_id \o <<"_scraped.json">>)]
         IN  IF content_too_short(scraped)
             THEN pipeline_return(c, s1, Return(None))
             ELSE IF c.ai_mock \/ ~client
             THEN pipeline_after_analysis(c, s2,
                      analyze_with_ai(scraped, c.category, c.ai_mock, client, NotSet), allow, t)
             ELSE [s2 EXCEPT !.pc = "completion"]

\* run_pipeline, from the return of scrape_content on
pipeline_after_scrape(c, s, scraped, client, allow, t) ==
    IF scraped = None
    THEN pipeline_return(c, s, Return(None))
    ELSE LET o == [scraped |-> scraped] @@ [s.out EXCEPT !.steps = Append(@, "scraped")]
             s2 == [s EXCEPT !.out = o,
                             !.files = write_file(@, o.run_id \o <<"_scraped.json">>, scraped),
                             !.written = Append(@, o.run_id \o <<"_scraped.json">>)]
         IN  IF content_too_short(scraped)
             THEN pipeline_return(c, s2, Return(None))
             ELSE IF c.ai_mock \/ ~client
             THEN pipeline_after_analysis(c, s2,
                      analyze_with_ai(scraped, c.category, c.ai_mock, client, NotSet), allow, t)
             ELSE [s2 EXCEPT !.pc = "completion"]

\* run_pipeline up to the first GET of scrape_content
run_pipeline(c, s, makedirs_ok, t) ==
    IF ~makedirs_ok
    THEN pipeline_return(c, s, Raise("OSError"))
    ELSE [s EXCEPT !.pc = "fetch",
                   !.attempt = 0,
                   !.out = [run_id |-> run_id(t), url |-> c.url, steps |-> <<>>]]


\* ------------------------------------------------------------------------
\* The environment: the URLs asked for, what the network answers
\* ------------------------------------------------------------------------
URL_A == <<"https://", "example.com", "/a">>
URLS == {URL_A}
CATEGORY == <<"tech">>

T_snap_title == <<"S","N","A","P"," ","B","e","n","e","f","i","t","s"," ","a","n","d"," ","D","o","o","r","D","a","s","h">>
T_snap_content == <<"A","r","t","i","c","l","e"," ","a","b","o","u","t"," ","S","N","A","P"," ","b","e","n","e","f","i","t","s"," ","r","u","n","n","i","n","g"," ","o","u","t"," ","s","o","o","n">>
T_hi == <<"H","i">>

\* a page with a title and an article region of 105 characters
PageSnap ==
    [title_tag |-> <<T_snap_title>>,
     article |-> <<T_snap_content \o <<"\n">> \o Rep("x", 60)>>,
     text |-> T_hi \o <<"\n">> \o T_snap_content \o <<"\n">> \o Rep("x", 60)]
\* 102 raw characters that normalise to 99
Page99 == [title_tag |-> <<>>, article |-> <<>>, text |-> Rep("x", 99) \o <<"\n", " ", "\n">>]
\* normalises to exactly 100 characters; no <title>
Page100 ==
    [title_tag |-> <<>>, article |-> <<>>,
     text |-> Rep("x", 50) \o <<"\n", " ", "\n">> \o Rep("y", 49)]
Pages == {PageSnap, Page99, Page100}

FetchOutcomes ==
    {[kind |-> "ConnectionError"], [kind |-> "Timeout"]}
    \cup {[kind |-> "response", status_code |-> 500, page |-> PageSnap]}
    \cup {[kind |-> "response", status_code |-> 200, page |-> p] : p \in Pages}

T_good == <<"{","\"","t","i","t","l","e","\"",":","\"","T","\"",",","\"","d","e","s","c","r","i","p","t","i","o","n","\"",":","\"","D","\"",",","\"","o","p","t","i","o","n","s","\"",":","[","\"","Y","e","s","\"",",","\"","N","o","\"","]",",","\"","c","o","n","f","i","d","e","n","c","e","\"",":","0",".","8","}">>
T_wrapped == <<"S","u","r","e",":"," ","{","\"","t","i","t","l","e","\"",":","\"","T","\"",",","\"","d","e","s","c","r","i","p","t","i","o","n","\"",":","\"","D","\"",",","\"","o","p","t","i","o","n","s","\"",":","[","\"","A","\"","]",",","\"","c","o","n","f","i","d","e","n","c","e","\"",":","1",".","7","}"," ","o","k">>
T_title_only == <<"{","\"","t","i","t","l","e","\"",":","\"","T","\"","}">>
T_no_json == <<"n","o">>
CompletionTexts == {T_good, T_wrapped, T_title_only, T_no_json, <<>>}

CompletionOutcomes ==
    {[kind |-> "raise"], [kind |-> "response", choices |-> <<>>]}
    \cup {[kind |-> "response",
           choices |-> <<[message |-> <<[content |-> <<x>>]>>, text |-> <<>>]>>] : x \in CompletionTexts}
    \cup {[kind |-> "response", choices |-> <<[message |-> <<[content |-> <<>>]>>, text |-> <<>>]>>],
          [kind |-> "response", choices |-> <<[message |-> <<>>, text |-> <<T_good>>]>>]}

B_id == <<"{","\"","i","d","\"",":","\"","M","1","\"","}">>
B_market_id == <<"{","\"","m","a","r","k","e","t","_","i","d","\"",":","\"","M","2","\"","}">>
B_empty_id_marketId == <<"{","\"","i","d","\"",":","\"","\"",",","\"","m","a","r","k","e","t","I","d","\"",":","\"","M","3","\"","}">>
B_zero_id_event_id == <<"{","\"","i","d","\"",":","0",",","\"","e","v","e","n","t","_","i","d","\"",":","\"","E","4","\"","}">>
B_id_event_id == <<"{","\"","i","d","\"",":","\"","M","1","\"",",","\"","e","v","e","n","t","_","i","d","\"",":","\"","E","4","\"","}">>
B_no_keys == <<"{","}">>
B_null_id == <<"{","\"","i","d","\"",":","n","u","l","l","}">>
B_not_json == <<"o","o","p","s">>
B_list == <<"[","\"","x","\"","]">>
Bodies ==
    {B_id, B_market_id, B_empty_id_marketId, B_zero_id_event_id, B_id_event_id,
     B_no_keys, B_null_id, B_not_json, B_list}

HealthOutcomes ==
    {[kind |-> "ConnectionError"], [kind |-> "Timeout"], [kind |-> "TooManyRedirects"]}
    \cup {[kind |-> "response", status_code |-> 200, text |-> b] : b \in {<<>>, B_no_keys, B_not_json}}
    \cup {[kind |-> "response", status_code |-> 204, text |-> <<>>],
          [kind |-> "response", status_code |-> 503, text |-> B_not_json]}

PostOutcomes ==
    {[kind |-> "ConnectionError"], [kind |-> "Timeout"], [kind |-> "TooManyRedirects"]}
    \cup {[kind |-> "response", status_code |-> 200, text |-> b] : b \in Bodies}
    \cup {[kind |-> "response", status_code |-> st, text |-> B_id] : st \in {201, 300}}
    \cup {[kind |-> "response", status_code |-> st, text |-> B_not_json] : st \in {404, 500}}

\* events handed to create_market by a caller other than run_pipeline
SampleEvents == {analyze_mock(extract_document(PageSnap, URL_A), CATEGORY).value}

\* what the log of requests keeps of an outcome
outcome_class(o) ==
    IF o.kind = "response" /\ "text" \in DOMAIN o
    THEN [kind |-> "response", status_code |-> o.status_code, text |-> o.text]
    ELSE IF o.kind = "response" /\ "status_code" \in DOMAIN o
    THEN [kind |-> "response", status_code |-> o.status_code]
    ELSE [kind |-> o.kind]


\* test_blockchain_connection, from the answer to GET /health on
test_blockchain_connection(outcome) ==
    IF outcome.kind = "ConnectionError"
    THEN [success |-> FALSE,
          error |-> <<"Connection failed - is your blockchain running on ", BLOCKCHAIN_URL, "?">>]
    ELSE IF outcome.kind # "response"
    THEN [success |-> FALSE, error |-> <<outcome.kind>>]
    ELSE IF outcome.status_code = HTTP_OK
    THEN IF outcome.text # <<>> /\ json_loads(outcome.text).kind = "raise"
         THEN [success |-> FALSE, error |-> <<json_loads(outcome.text).exc>>]
         ELSE [success |-> TRUE,
               message |-> <<"Blockchain connection successful">>,
               health_status |-> IF outcome.text # <<>> THEN json_loads(outcome.text).value
                                 ELSE PyDict((<<"s","t","a","t","u","s">> :> PyStr(<<"o","k">>)))]
    ELSE [success |-> FALSE,
          error |-> <<"Health check failed with status ", ToString(outcome.status_code)>>,
          response |-> outcome.text]

\* ------------------------------------------------------------------------
\* State
\* ------------------------------------------------------------------------
VARIABLES
    ALLOW_CREATE_MARKET,  \* module global (line 37; main may set it)
    openai,               \* module global: TRUE iff a client is configured
    now,                  \* int(time.time())
    ncalls,               \* invocations started so far
    call,                 \* the invocation in progress or last finished
    pc,                   \* the network call the invocation is waiting on, or "idle"
    attempt,              \* scrape_content: loop index
    out,                  \* run_pipeline: out
    analysis,             \* run_pipeline: what analyze_with_ai returned or raised
    event,                \* run_pipeline / create_market: event
    payload,              \* create_market: payload
    result,               \* parse_url: what run_pipeline returned or raised
    response,             \* what parse_url returned
    market_result,        \* what create_market returned
    test_result,          \* main: what test_blockchain_connection returned
    exit_code,            \* main: <<status>> once the process has exited, else <<>>
    files,                \* the log directory: file name -> document
    written,              \* the files this invocation has written so far, in order
    net,                  \* the requests this invocation has issued so far, in order
    event_cache,          \* event_feed_service: category -> events in insertion order, one per id
    cache_timestamp,      \* event_feed_service: category -> time of the last refresh
    startup,              \* event_feed_service: categories startup_event has preloaded
    tasks,                \* event_feed_service: requests suspended in fetch_feed, in arrival order
    served,               \* event_feed_service: the last response sent and the request it answers
    fetch_log             \* event_feed_service: category -> what its refreshes fetched so far

vars == <<ALLOW_CREATE_MARKET, openai, now, ncalls, call, pc, attempt, out, analysis, event, payload,
          result, response, market_result, test_result, exit_code, files, written, net,
          event_cache, cache_timestamp, startup, tasks, served, fetch_log>>

feed_vars == <<event_cache, cache_timestamp, startup, tasks, served, fetch_log>>

\* the event feed service is not running
FeedNotStarted ==
    /\ event_cache = <<>>
    /\ cache_timestamp = <<>>
    /\ startup = 0
    /\ tasks = <<>>
    /\ served = NotSet
    /\ fetch_log = <<>>

locals ==
    [pc |-> pc, attempt |-> attempt, out |-> out, analysis |-> analysis, event |-> event,
     payload |-> payload,
     result |-> result, response |-> response, market_result |-> market_result,
     test_result |-> test_result, exit_code |-> exit_code, files |-> files,
     written |-> written]

\* the locals of a fresh invocation
fresh ==
    [pc |-> "idle", attempt |-> 0, out |-> NotSet, analysis |-> NotSet, event |-> NotSet,
     payload |-> NotSet,
     result |-> NotSet, response |-> NotSet, market_result |-> NotSet,
     test_result |-> NotSet, exit_code |-> <<>>, files |-> files, written |-> <<>>]

Set(s) ==
    /\ pc' = s.pc
    /\ attempt' = s.attempt
    /\ out' = s.out
    /\ analysis' = s.analysis
    /\ event' = s.event
    /\ payload' = s.payload
    /\ result' = s.result
    /\ response' = s.response
    /\ market_result' = s.market_result
    /\ test_result' = s.test_result
    /\ exit_code' = s.exit_code
    /\ files' = s.files
    /\ written' = s.written

Request(kind, outcome) ==
    net' = Append(net, [req |-> kind, outcome |-> outcome_class(outcome)])

NoCall ==
    [entry |-> "none", url |-> URL_A, category |-> CATEGORY, ai_mock |-> FALSE,
     create_market_flag |-> FALSE, dry_run |-> TRUE, test_blockchain |-> FALSE]

Init ==
    /\ ALLOW_CREATE_MARKET \in BOOLEAN
    /\ openai \in BOOLEAN
    /\ now = 0
    /\ ncalls = 0
    /\ call = NoCall
    /\ files = <<>>
    /\ written = <<>>
    /\ net = <<>>
    /\ pc = "idle"
    /\ attempt = 0
    /\ out = NotSet
    /\ analysis = NotSet
    /\ event = NotSet
    /\ payload = NotSet
    /\ result = NotSet
    /\ response = NotSet
    /\ market_result = NotSet
    /\ test_result = NotSet
    /\ exit_code = <<>>
    /\ FeedNotStarted

\* ------------------------------------------------------------------------
\* Actions
\* ------------------------------------------------------------------------
\* python serve_frontend.py [--url U] [--ai-mock] [--create-market]
\*                          [--test-blockchain] [--enable-blockchain]
main ==
    \E enable_blockchain \in BOOLEAN, test_blockchain \in BOOLEAN, has_url \in BOOLEAN, url \in URLS,
       ai_mock \in BOOLEAN, create_market_arg \in BOOLEAN, makedirs_ok \in BOOLEAN :
        LET c == [entry |-> "main",
                  url |-> url,
                  category |-> CATEGORY,
                  ai_mock |-> ai_mock \/ ~openai,
                  create_market_flag |-> create_market_arg,
                  dry_run |-> TRUE,
                  test_blockchain |-> test_blockchain]
        IN  /\ pc = "idle"
            /\ ncalls < MaxCalls
            /\ ncalls' = ncalls + 1
            /\ call' = c
            /\ ALLOW_CREATE_MARKET' = (enable_blockchain \/ ALLOW_CREATE_MARKET)
            /\ IF test_blockchain
               THEN Set([fresh EXCEPT !.pc = "test_health"])
               ELSE IF ~has_url
               THEN Set([fresh EXCEPT !.exit_code = <<1>>])
               ELSE Set(run_pipeline(c, fresh, makedirs_ok, now))
            /\ net' = <<>>
            /\ UNCHANGED <<openai, now>>
            /\ UNCHANGED feed_vars

\* parse_url(url, ai_mock, create_market_flag), called as a library function
parse_url ==
    \E url \in URLS, ai_mock \in BOOLEAN, create_market_flag \in BOOLEAN, makedirs_ok \in BOOLEAN :
        LET c == [entry |-> "parse_url", url |-> url, category |-> CATEGORY,
                  ai_mock |-> ai_mock, create_market_flag |-> create_market_flag,
                  dry_run |-> TRUE, test_blockchain |-> FALSE]
        IN  /\ pc = "idle"
            /\ ncalls < MaxCalls
            /\ ncalls' = ncalls + 1
            /\ call' = c
            /\ Set(run_pipeline(c, fresh, makedirs_ok, now))
            /\ net' = <<>>
            /\ UNCHANGED <<ALLOW_CREATE_MARKET, openai, now>>
            /\ UNCHANGED feed_vars

\* create_market(event, dry_run), called as a library function
call_create_market ==
    \E ev \in SampleEvents, dry_run \in BOOLEAN :
        LET c == [entry |-> "create_market", url |-> URL_A, category |-> CATEGORY,
                  ai_mock |-> FALSE, create_market_flag |-> FALSE,
                  dry_run |-> dry_run, test_blockchain |-> FALSE]
        IN  /\ pc = "idle"
            /\ ncalls < MaxCalls
            /\ ncalls' = ncalls + 1
            /\ call' = c
            /\ Set(create_market(c, fresh, ev, dry_run, ALLOW_CREATE_MARKET, now))
            /\ net' = <<>>
            /\ UNCHANGED <<ALLOW_CREATE_MARKET, openai, now>>
            /\ UNCHANGED feed_vars

\* scrape_content: one requests.get(url) and what follows it
fetch ==
    \E outcome \in FetchOutcomes :
        LET a == scrape_attempt(call.url, attempt, outcome)
        IN  /\ pc = "fetch"
            /\ Request("fetch", outcome)
            /\ IF a.next = "retry"
               THEN Set([locals EXCEPT !.attempt = attempt + 1])
               ELSE Set(pipeline_after_scrape(call, locals, a.value, openai,
                                              ALLOW_CREATE_MARKET, now))
            /\ UNCHANGED <<ALLOW_CREATE_MARKET, openai, now, ncalls, call>>
            /\ UNCHANGED feed_vars

\* analyze_with_ai: openai.ChatCompletion.create and what follows it
completion ==
    \E outcome \in CompletionOutcomes :
        /\ pc = "completion"
        /\ Request("completion", outcome)
        /\ Set(pipeline_after_analysis(call, locals,
                   analyze_with_ai(out.scraped, call.category, call.ai_mock, openai, outcome),
                   ALLOW_CREATE_MARKET, now))
        /\ UNCHANGED <<ALLOW_CREATE_MARKET, openai, now, ncalls, call>>
        /\ UNCHANGED feed_vars

\* create_market: requests.get(BLOCKCHAIN_URL/health) and what follows it
health ==
    \E outcome \in HealthOutcomes :
        LET h == market_after_health(outcome, payload)
        IN  /\ pc = "health"
            /\ Request("health", outcome)
            /\ IF h.next = "post"
               THEN Set([locals EXCEPT !.pc = "post"])
               ELSE Set(market_return(call, locals, h.value))
            /\ UNCHANGED <<ALLOW_CREATE_MARKET, openai, now, ncalls, call>>
            /\ UNCHANGED feed_vars

\* create_market: requests.post(BLOCKCHAIN_URL/ai/events) and what follows it
post ==
    \E outcome \in PostOutcomes :
        /\ pc = "post"
        /\ Request("create", outcome)
        /\ Set(market_return(call, locals, market_after_post(outcome, payload)))
        /\ UNCHANGED <<ALLOW_CREATE_MARKET, openai, now, ncalls, call>>
        /\ UNCHANGED feed_vars

\* main --test-blockchain: the probe, the report, exit(0)
test_health ==
    \E outcome \in HealthOutcomes :
        /\ pc = "test_health"
        /\ Request("test_health", outcome)
        /\ Set([locals EXCEPT !.pc = "idle",
                              !.test_result = test_blockchain_connection(outcome),
                              !.exit_code = <<0>>])
        /\ UNCHANGED <<ALLOW_CREATE_MARKET, openai, now, ncalls, call>>
        /\ UNCHANGED feed_vars

\* the clock advances by a second
tick ==
    /\ now < MaxTime
    /\ now' = now + 1
    /\ UNCHANGED <<ALLOW_CREATE_MARKET, openai, ncalls, call, pc, attempt, out, analysis, event, payload,
                   result, response, market_result, test_result, exit_code, files, written, net>>
    /\ UNCHANGED feed_vars

Next ==
    \/ main
    \/ parse_url
    \/ call_create_market
    \/ fetch
    \/ completion
    \/ health
    \/ post
    \/ test_health
    \/ tick

Spec == Init /\ [][Next]_vars

\* every network call returns or times out (each carries a timeout), so a
\* pending call is eventually answered
Fairness ==
    /\ WF_vars(fetch)
    /\ WF_vars(completion)
    /\ WF_vars(health)
    /\ WF_vars(post)
    /\ WF_vars(test_health)

FairSpec == Spec /\ Fairness

\* ------------------------------------------------------------------------
\* analyze_with_ai called directly (as the tests do), on documents of the
\* shape scrape_content returns; entry tells which module's function it is
\* ------------------------------------------------------------------------
T_trump_news == <<"T","r","u","m","p"," ","n","e","w","s">>
T_pardon_doordash == <<"p","a","r","d","o","n"," ","a","n","d"," ","d","o","o","r","d","a","s","h">>
T_luxury_ai_robot == <<"L","u","x","u","r","y"," ","A","I"," ","r","o","b","o","t">>
T_trump_snap == <<"t","r","u","m","p"," ","a","n","d"," ","s","n","a","p">>
T_github_binance == <<"G","i","t","H","u","b"," ","U","n","i","v","e","r","s","e"," ","a","n","d"," ","b","i","n","a","n","c","e">>
T_theft == <<"t","h","e","f","t">>
T_x == <<"x">>
T_negative == <<"{","\"","t","i","t","l","e","\"",":","\"","T","\"",",","\"","d","e","s","c","r","i","p","t","i","o","n","\"",":","\"","D","\"",",","\"","o","p","t","i","o","n","s","\"",":","[","\"","Y","e","s","\"",",","\"","\"","]",",","\"","c","o","n","f","i","d","e","n","c","e","\"",":","-","0",".","5","}">>

DocumentTitles == {T_snap_title, T_trump_news, T_pardon_doordash, T_luxury_ai_robot, T_hi, <<>>}
DocumentContents == {T_snap_content, T_trump_snap, T_github_binance, T_theft, T_x}
Documents ==
    {[title |-> t, content |-> c, domain |-> urlparse(URL_A).netloc, url |-> URL_A] :
         t \in DocumentTitles, c \in DocumentContents}
Categories == {CATEGORY, <<"crypto">>}
AnalysisReplies ==
    CompletionOutcomes
    \cup {[kind |-> "response",
           choices |-> <<[message |-> <<[content |-> <<T_negative>>]>>, text |-> <<>>]>>]}

InitAnalysis ==
    /\ ALLOW_CREATE_MARKET = FALSE
    /\ openai \in BOOLEAN
    /\ now = 0
    /\ ncalls = 0
    /\ \E entry \in {"analyze_with_ai", "url_scraper.analyze_with_ai"}, category \in Categories :
           \E ai_mock \in (IF entry = "analyze_with_ai" THEN BOOLEAN ELSE {FALSE}) :
               call = [entry |-> entry, url |-> URL_A, category |-> category, ai_mock |-> ai_mock,
                       create_market_flag |-> FALSE, dry_run |-> TRUE, test_blockchain |-> FALSE]
    /\ out \in {[scraped |-> d] : d \in Documents}
    /\ files = <<>>
    /\ written = <<>>
    /\ net = <<>>
    /\ pc = "analyze"
    /\ attempt = 0
    /\ analysis = NotSet
    /\ event = NotSet
    /\ payload = NotSet
    /\ result = NotSet
    /\ response = NotSet
    /\ market_result = NotSet
    /\ test_result = NotSet
    /\ exit_code = <<>>
    /\ FeedNotStarted

\* the call takes the branch that needs no completion
Deterministic == IF call.entry = "analyze_with_ai" THEN call.ai_mock \/ ~openai ELSE ~openai

\* the function called, given the outcome of the completion call
analyze_entry(outcome) ==
    IF call.entry = "analyze_with_ai"
    THEN analyze_with_ai(out.scraped, call.category, call.ai_mock, openai, outcome)
    ELSE url_scraper_analyze_with_ai(out.scraped, call.category, openai, outcome)

\* analyze_with_ai(scraped, category, ...) up to its completion call, or to
\* its return when it makes none
call_analyze_with_ai ==
    /\ pc = "analyze"
    /\ IF Deterministic
       THEN pc' = "idle" /\ analysis' = analyze_entry(NotSet)
       ELSE pc' = "completion" /\ analysis' = analysis
    /\ UNCHANGED <<ALLOW_CREATE_MARKET, openai, now, ncalls, call, attempt, out, event, payload,
                   result, response, market_result, test_result, exit_code, files, written, net>>
    /\ UNCHANGED feed_vars

\* the completion call of analyze_with_ai and what follows it
analyze_reply ==
    \E outcome \in AnalysisReplies :
        /\ pc = "completion"
        /\ Request("completion", outcome)
        /\ pc' = "idle"
        /\ analysis' = analyze_entry(outcome)
        /\ UNCHANGED <<ALLOW_CREATE_MARKET, openai, now, ncalls, call, attempt, out, event, payload,
                       result, response, market_result, test_result, exit_code, files, written>>
        /\ UNCHANGED feed_vars

NextAnalysis == call_analyze_with_ai \/ analyze_reply

SpecAnalysis == InitAnalysis /\ [][NextAnalysis]_vars

\* ------------------------------------------------------------------------
\* json_from_text called directly (as TestJSONFromText does), on texts made
\* of a prefix, a core and a suffix
\* ------------------------------------------------------------------------
T_some_text == <<"S","o","m","e"," ","t","e","x","t"," ">>
T_more_text == <<" ","m","o","r","e"," ","t","e","x","t">>
T_test_object == <<"{","\"","t","i","t","l","e","\"",":"," ","\"","T","e","s","t","\"",","," ","\"","c","o","n","f","i","d","e","n","c","e","\"",":"," ","0",".","8","}">>
T_nested_object == <<"{","\"","a","\"",":","{","\"","b","\"",":","1","}","}">>
T_no_json_here == <<"N","o"," ","J","S","O","N"," ","h","e","r","e"," ","a","t"," ","a","l","l">>
T_two_objects == <<"{","\"","a","\"",":","1","}"," ","{","\"","b","\"",":","2","}">>
JsonPrefixes == {<<>>, T_some_text, <<"\"">>, <<"[">>}
JsonCores == {T_test_object, T_nested_object, T_no_json_here, T_two_objects, <<"{">>, <<"{", "}">>}
JsonSuffixes == {<<>>, T_more_text, <<"\"">>, <<"]">>, <<"}">>}
JsonTexts == {p \o c \o s : p \in JsonPrefixes, c \in JsonCores, s \in JsonSuffixes}

InitJson ==
    /\ ALLOW_CREATE_MARKET = FALSE
    /\ openai = FALSE
    /\ now = 0
    /\ ncalls = 0
    /\ call = [entry |-> "json_from_text"]
    /\ out \in {[text |-> t] : t \in JsonTexts}
    /\ files = <<>>
    /\ written = <<>>
    /\ net = <<>>
    /\ pc = "json_from_text"
    /\ attempt = 0
    /\ analysis = NotSet
    /\ event = NotSet
    /\ payload = NotSet
    /\ result = NotSet
    /\ response = NotSet
    /\ market_result = NotSet
    /\ test_result = NotSet
    /\ exit_code = <<>>
    /\ FeedNotStarted

\* result = json_from_text(text)
call_json_from_text ==
    /\ pc = "json_from_text"
    /\ pc' = "idle"
    /\ result' = json_from_text(out.text)
    /\ UNCHANGED <<ALLOW_CREATE_MARKET, openai, now, ncalls, call, attempt, out, analysis, event,
                   payload, response, market_result, test_result, exit_code, files, written, net>>
    /\ UNCHANGED feed_vars

NextJson == call_json_from_text

SpecJson == InitJson /\ [][NextJson]_vars

\* ------------------------------------------------------------------------
\* event_feed_service/main.py: the cache, refresh_cache, get_events,
\* refresh_events, startup_event.  One event loop runs every coroutine, so a
\* coroutine is interleaved with the others only where it awaits the network
\* (client.get in fetch_feed); the code between two awaits runs in one step.
\* Times are in seconds.
\* ------------------------------------------------------------------------
CACHE_TTL_SECONDS == 300
FEED_ENTRY_LIMIT == 20
DEFAULT_LIMIT == 20
PRELOADED_CATEGORIES == 3

\* the keys of the two feed tables, in the order they are written
GOOGLE_NEWS_FEEDS == <<"tech", "crypto", "business", "ai", "startup">>
ALTERNATIVE_FEEDS == <<"techcrunch", "hackernews">>
Keys(d) == {d[i] : i \in 1..Len(d)}
known_category(category) ==
    category \in Keys(GOOGLE_NEWS_FEEDS) \/ category \in Keys(ALTERNATIVE_FEEDS)

\* md5(f"{title}:{published_at}").hexdigest()[:16], taken to be injective:
\* the digest stands for the content it is computed from
generate_event_id(title, published_at) == <<title, ":", published_at>>

\* Event(...), with the fields the cache and the feed hand on; event_type,
\* tags and related_companies, computed from the title, are left out
Event(entry, category) ==
    [id |-> generate_event_id(entry.title, entry.published),
     title |-> entry.title,
     description |-> entry.summary,
     source |-> category,
     url |-> entry.link,
     category |-> category]

\* the loop over feed.entries[:20]: an entry without a title is skipped
RECURSIVE feed_events(_, _)
feed_events(entries, category) ==
    IF entries = <<>> THEN <<>>
    ELSE IF Head(entries).title = "" THEN feed_events(Tail(entries), category)
    ELSE <<Event(Head(entries), category)>> \o feed_events(Tail(entries), category)

\* fetch_feed, given what the GET of the feed (and its synchronous
\* fallback) came to: the events of the feed, [] when the fetch failed
fetch_feed(outcome, category) ==
    IF outcome.kind # "feed" THEN <<>>
    ELSE feed_events(SubSeq(outcome.entries, 1,
                            IF Len(outcome.entries) < FEED_ENTRY_LIMIT
                            THEN Len(outcome.entries) ELSE FEED_ENTRY_LIMIT),
                     category)

\* event_cache[category][event.id] = event on a dict: a known id keeps its
\* place and takes the new event, a new id goes to the end
dict_index(d, id) == {i \in 1..Len(d) : d[i].id = id}
dict_set(d, ev) ==
    IF dict_index(d, ev.id) = {} THEN Append(d, ev)
    ELSE [d EXCEPT ![MinOf(dict_index(d, ev.id))] = ev]
RECURSIVE dict_update(_, _)
dict_update(d, events) ==
    IF events = <<>> THEN d ELSE dict_update(dict_set(d, Head(events)), Tail(events))

\* event_cache.get(category, {})
cache_get(cache, category) == IF category \in DOMAIN cache THEN cache[category] ELSE <<>>

\* mutant: each refresh starts the category's dict afresh
refresh_cache_events_afresh(cache, category, events) ==
    (category :> dict_update(<<>>, events)) @@ cache

\* refresh_cache after fetch_feed returned events: the cache it leaves
refresh_cache_events(cache, category, events) ==
    (category :> dict_update(cache_get(cache, category), events)) @@ cache

\* refresh_cache after fetch_feed returned: the timestamps it leaves
refresh_cache_timestamp(timestamps, category, t) == (category :> t) @@ timestamps

\* mutant: a cache exactly one window old counts as stale
cache_stale_at_ttl(timestamps, category, t) ==
    IF category \in DOMAIN timestamps
    THEN t - timestamps[category] >= CACHE_TTL_SECONDS
    ELSE TRUE

\* get_events: the freshness check; TRUE when refresh_cache is awaited
cache_stale(timestamps, category, t) ==
    IF category \in DOMAIN timestamps
    THEN t - timestamps[category] > CACHE_TTL_SECONDS
    ELSE TRUE

\* list(...)[:limit] for limit >= 0
list_limit(d, limit) == SubSeq(d, 1, IF Len(d) < limit THEN Len(d) ELSE limit)

\* get_events: the EventFeed it returns (last_updated, the time of the
\* response, is left out)
EventFeed(cache, category, limit) ==
    [category |-> category,
     events |-> list_limit(cache_get(cache, category), limit),
     total_count |-> Len(list_limit(cache_get(cache, category), limit))]

\* get_events: age, where the category has a timestamp
cache_age(timestamps, category, t) ==
    IF category \in DOMAIN timestamps THEN <<t - timestamps[category]>> ELSE <<>>

\* what refreshes of a category have fetched so far: the ids, whether the
\* last fetch failed, whether a refresh ever completed while another
\* request for the category was suspended in its own refresh
NoFetches == [ids |-> {}, failed |-> FALSE, overlapped |-> FALSE]
log_get(log, category) == IF category \in DOMAIN log THEN log[category] ELSE NoFetches
log_fetch(log, category, outcome, events, others) ==
    (category :> [ids |-> log_get(log, category).ids \cup {events[i].id : i \in 1..Len(events)},
                  failed |-> outcome.kind # "feed",
                  overlapped |-> log_get(log, category).overlapped \/ others])
    @@ log

\* the feeds: what a GET of a category's feed may come to
MaxRequests == 2
MaxTicks == 1

E_untitled == [title |-> "", published |-> "Mon", summary |-> "s0", link |-> "u0"]
E_a == [title |-> "a launch", published |-> "Mon", summary |-> "s1", link |-> "u1"]
E_a_updated == [title |-> "a launch", published |-> "Mon", summary |-> "s1 updated", link |-> "u1"]
E_b == [title |-> "b earnings", published |-> "Tue", summary |-> "s2", link |-> "u2"]
E_c == [title |-> "c summit", published |-> "Wed", summary |-> "s3", link |-> "u3"]
FeedError == [kind |-> "error"]
Feed(entries) == [kind |-> "feed", entries |-> entries]
FeedOutcomes(category) ==
    IF category = "tech"
    THEN {FeedError, Feed(<<E_a>>), Feed(<<E_b, E_a_updated>>), Feed(<<E_untitled, E_b>>)}
    ELSE {FeedError, Feed(<<E_c>>)}
RequestCategories == {"tech", "techcrunch", "sports"}
Limits == {1, DEFAULT_LIMIT}
ClockAdvances == {CACHE_TTL_SECONDS, CACHE_TTL_SECONDS + 1}

InitFeed ==
    /\ ALLOW_CREATE_MARKET = FALSE
    /\ openai = FALSE
    /\ now = 0
    /\ ncalls = 0
    /\ call = [entry |-> "event_feed_service"]
    /\ files = <<>>
    /\ written = <<>>
    /\ net = <<>>
    /\ pc = "idle"
    /\ attempt = 0
    /\ out = NotSet
    /\ analysis = NotSet
    /\ event = NotSet
    /\ payload = NotSet
    /\ result = NotSet
    /\ response = NotSet
    /\ market_result = NotSet
    /\ test_result = NotSet
    /\ exit_code = <<>>
    /\ FeedNotStarted

pipeline_vars ==
    <<ALLOW_CREATE_MARKET, openai, call, pc, attempt, out, analysis, event, payload, result,
      response, market_result, test_result, exit_code, files, written, net>>

Serving == startup = PRELOADED_CATEGORIES
RemoveAt(seq, i) == SubSeq(seq, 1, i - 1) \o SubSeq(seq, i + 1, Len(seq))
OthersSuspended(category, i) == \E j \in 1..Len(tasks) : j # i /\ tasks[j].category = category

\* mutant: a refresh that fetched nothing leaves the timestamp alone
refresh_cache_finish_untimed_when_empty(category, outcome, i) ==
    /\ event_cache' = refresh_cache_events(event_cache, category, fetch_feed(outcome, category))
    /\ cache_timestamp' = IF fetch_feed(outcome, category) = <<>>
                          THEN cache_timestamp
                          ELSE refresh_cache_timestamp(cache_timestamp, category, now)
    /\ fetch_log' = log_fetch(fetch_log, category, outcome, fetch_feed(outcome, category),
                              OthersSuspended(category, i))

\* refresh_cache(category) from the return of fetch_feed on
refresh_cache_finish(category, outcome, i) ==
    /\ event_cache' = refresh_cache_events(event_cache, category, fetch_feed(outcome, category))
    /\ cache_timestamp' = refresh_cache_timestamp(cache_timestamp, category, now)
    /\ fetch_log' = log_fetch(fetch_log, category, outcome, fetch_feed(outcome, category),
                              OthersSuspended(category, i))

\* startup_event: the refresh of the next of the first three categories;
\* the server takes requests once startup_event has returned
preload ==
    \E outcome \in FeedOutcomes(GOOGLE_NEWS_FEEDS[IF Serving THEN 1 ELSE startup + 1]) :
        /\ ~Serving
        /\ refresh_cache_finish(GOOGLE_NEWS_FEEDS[startup + 1], outcome, 0)
        /\ startup' = startup + 1
        /\ UNCHANGED <<now, ncalls, tasks, served>>
        /\ UNCHANGED pipeline_vars

\* GET /events?category=..&limit=..: up to the await of fetch_feed, or to
\* the response when nothing is fetched
get_events ==
    \E category \in RequestCategories, limit \in Limits :
        LET request == [kind |-> "get_events", category |-> category, limit |-> limit,
                        age |-> cache_age(cache_timestamp, category, now)]
        IN  /\ Serving
            /\ ncalls < MaxRequests
            /\ ncalls' = ncalls + 1
            /\ IF cache_stale(cache_timestamp, category, now) /\ known_category(category)
               THEN /\ tasks' = Append(tasks, request)
                    /\ UNCHANGED served
               ELSE /\ served' = [request |-> request, refreshed |-> FALSE,
                                  body |-> EventFeed(event_cache, category, limit)]
                    /\ UNCHANGED tasks
            /\ UNCHANGED <<now, event_cache, cache_timestamp, startup, fetch_log>>
            /\ UNCHANGED pipeline_vars

\* POST /refresh/{category}: the response, and the background task up to
\* the await of fetch_feed
refresh_events ==
    \E category \in RequestCategories :
        LET request == [kind |-> "refresh_events", category |-> category, limit |-> 0,
                        age |-> <<>>]
        IN  /\ Serving
            /\ ncalls < MaxRequests
            /\ ncalls' = ncalls + 1
            /\ IF known_category(category)
               THEN /\ tasks' = Append(tasks, request)
                    /\ served' = [request |-> request, refreshed |-> FALSE,
                                  body |-> [status |-> "refreshing", category |-> category]]
               ELSE /\ served' = [request |-> request, refreshed |-> FALSE,
                                  body |-> [error |-> "Unknown category", category |-> category]]
                    /\ UNCHANGED tasks
            /\ UNCHANGED <<now, event_cache, cache_timestamp, startup, fetch_log>>
            /\ UNCHANGED pipeline_vars

\* the fetch_feed a suspended request awaits returns: refresh_cache stores
\* the events and the time, and get_events reads the cache and responds
fetch_returns ==
    \E i \in 1..Len(tasks) :
        \E outcome \in FeedOutcomes(tasks[i].category) :
            /\ refresh_cache_finish(tasks[i].category, outcome, i)
            /\ tasks' = RemoveAt(tasks, i)
            /\ IF tasks[i].kind = "get_events"
               THEN served' = [request |-> tasks[i], refreshed |-> TRUE,
                               body |-> EventFeed(event_cache', tasks[i].category,
                                                  tasks[i].limit)]
               ELSE UNCHANGED served
            /\ UNCHANGED <<now, ncalls, startup>>
            /\ UNCHANGED pipeline_vars

\* time passes, by a freshness window or a second more; startup_event,
\* three fetches of at most 10 s each and their fallbacks, is over in less
feed_tick ==
    \E d \in ClockAdvances :
        /\ Serving
        /\ now < MaxTicks * CACHE_TTL_SECONDS
        /\ now' = now + d
        /\ UNCHANGED <<ncalls, event_cache, cache_timestamp, startup, tasks, served, fetch_log>>
        /\ UNCHANGED pipeline_vars

NextFeed ==
    \/ preload
    \/ get_events
    \/ refresh_events
    \/ fetch_returns
    \/ feed_tick

SpecFeed == InitFeed /\ [][NextFeed]_vars

\* ------------------------------------------------------------------------
\* url_scraper.py serving one POST /scrape: out holds the scraped document,
\* analysis what analyze_with_ai returned, market_result what create_market
\* returned, response the ScrapeResponse sent; openai stands for
\* openai_client being set
\* ------------------------------------------------------------------------
B_int_id == <<"{","\"","i","d","\"",":","7","}">>
ScrapePostOutcomes ==
    PostOutcomes \cup {[kind |-> "response", status_code |-> URL_SCRAPER_HTTP_OK, text |-> B_int_id]}
\* URLRequest.category: absent (the default), null, or a string
RequestCategories_scrape == {PyStr(CATEGORY), PyNone, PyStr(<<>>), PyStr(<<"crypto">>)}

InitScrape ==
    /\ ALLOW_CREATE_MARKET = FALSE
    /\ openai \in BOOLEAN
    /\ now = 0
    /\ ncalls = 0
    /\ \E category \in RequestCategories_scrape :
           call = [entry |-> "url_scraper.scrape_url", url |-> URL_A,
                   category |-> Or(category, PyStr(CATEGORY)).v]
    /\ files = <<>>
    /\ written = <<>>
    /\ net = <<>>
    /\ pc = "fetch"
    /\ attempt = 0
    /\ out = NotSet
    /\ analysis = NotSet
    /\ event = NotSet
    /\ payload = NotSet
    /\ result = NotSet
    /\ response = NotSet
    /\ market_result = NotSet
    /\ test_result = NotSet
    /\ exit_code = <<>>
    /\ FeedNotStarted

scrape_unchanged ==
    UNCHANGED <<ALLOW_CREATE_MARKET, openai, now, ncalls, call, attempt, event, payload, result,
                test_result, exit_code, files, written>>

\* step 1, scrape_content: the GET of the page and what follows it, up to
\* the completion call of analyze_with_ai or, without a client, to the POST
scrape_url_fetch ==
    \E outcome \in FetchOutcomes :
        LET scraped == url_scraper_scrape_content(call.url, outcome)
        IN  /\ pc = "fetch"
            /\ Request("fetch", outcome)
            /\ IF scraped.kind = "raise"
               THEN /\ pc' = "idle"
                    /\ response' = scrape_url_return(scraped)
                    /\ UNCHANGED <<out, analysis>>
               ELSE /\ out' = [scraped |-> scraped.value]
                    /\ UNCHANGED response
                    /\ IF openai
                       THEN pc' = "completion" /\ UNCHANGED analysis
                       ELSE /\ pc' = "post"
                            /\ analysis' = url_scraper_analyze_with_ai(scraped.value, call.category,
                                                                       openai, NotSet)
            /\ UNCHANGED market_result
            /\ scrape_unchanged
            /\ UNCHANGED feed_vars

\* step 2, analyze_with_ai: the completion call and what follows it
scrape_url_completion ==
    \E outcome \in AnalysisReplies :
        /\ pc = "completion"
        /\ Request("completion", outcome)
        /\ analysis' = url_scraper_analyze_with_ai(out.scraped, call.category, openai, outcome)
        /\ IF analysis'.kind = "raise"
           THEN pc' = "idle" /\ response' = scrape_url_return(analysis')
           ELSE pc' = "post" /\ UNCHANGED response
        /\ UNCHANGED <<out, market_result>>
        /\ scrape_unchanged
        /\ UNCHANGED feed_vars

\* step 3, create_market: the POST and what follows it, to the response
scrape_url_post ==
    \E outcome \in ScrapePostOutcomes :
        /\ pc = "post"
        /\ Request("create", outcome)
        /\ pc' = "idle"
        /\ market_result' = url_scraper_create_market(outcome)
        /\ response' = scrape_url_return(
                           scrape_url_after_market(call.url, analysis.value,
                                                   url_scraper_create_market(outcome)))
        /\ UNCHANGED <<out, analysis>>
        /\ scrape_unchanged
        /\ UNCHANGED feed_vars

NextScrape == scrape_url_fetch \/ scrape_url_completion \/ scrape_url_post

SpecScrape == InitScrape /\ [][NextScrape]_vars


\* ------------------------------------------------------------------------
\* Properties
\* ------------------------------------------------------------------------
IsPrefix(a, b) == Len(a) <= Len(b) /\ SubSeq(b, 1, Len(a)) = a
Requests(kind) == {i \in 1..Len(net) : net[i].req = kind}
LastRequest == net[Len(net)]
\* parse_url has returned
Finished == pc = "idle" /\ result # NotSet
\* a live create_market has returned
LiveFinished == pc = "idle" /\ market_result # NotSet /\ market_result.mode = "blockchain"
Is2xx(o) == o.kind = "response" /\ o.status_code >= 200 /\ o.status_code < 300

StepLists ==
    {<<>>, <<"scraped">>, <<"scraped", "analyzed">>,
     <<"scraped", "analyzed", "market_created">>, <<"scraped", "analyzed", "market_failed">>}

\* C1: at every moment of a run the recorded steps are a prefix of
\* [scraped, analyzed, market_created | market_failed], and within a run the
\* step list only ever grows at its end (no step twice, none out of order,
\* no way back).
C1_StepsLinear ==
    /\ [](out # NotSet => out.steps \in StepLists)
    /\ [][(pc # "idle" /\ out # NotSet /\ out' # NotSet) => IsPrefix(out.steps, out'.steps)]_vars

C1_Witness == out # NotSet /\ Len(out.steps) = 3 /\ out.steps[3] = "market_failed"

LastFetch == net[MaxOf(Requests("fetch"))].outcome
FetchFailed ==
    /\ Requests("fetch") # {}
    /\ LastFetch.kind # "response" \/ LastFetch.status_code >= 400
ContentShort == out # NotSet /\ "scraped" \in DOMAIN out /\ Len(out.scraped.content) < 100
NoEventFound ==
    /\ result = Return(None)
    /\ response.status = "success"
    /\ response.event_found = FALSE
    /\ "event" \notin DOMAIN response

C3_EventWheneverContentSuffices ==
    (Finished /\ out # NotSet /\ "scraped" \in DOMAIN out /\ Len(out.scraped.content) >= 100)
    => /\ result.kind = "return"
       /\ result.value # None
       /\ "event" \in DOMAIN result.value
       /\ response.event_found

YesNo == PyList(<<PyStr(T_Yes), PyStr(T_No)>>)

\* C4: in generative mode analyze_with_ai never raises; when the completion
\* call throws it returns the fallback event with options ["Yes","No"] and
\* confidence 0.5.
C4_GenerativeNeverRaises ==
    (analysis # NotSet /\ Requests("completion") # {})
    => /\ analysis.kind = "return"
       /\ LastRequest.outcome.kind = "raise"
          => /\ analysis.value.fields.options = YesNo
             /\ analysis.value.fields.confidence = PyFloat(50)

\* C5: when publishing was requested and create_market reports
\* success=false, run_pipeline still returns its result with the event and
\* the step market_failed, and parse_url reports event_found=true with the
\* event and the failed market_result.
C5_PublishFailureKeepsEvent ==
    (Finished /\ call.create_market_flag /\ market_result # NotSet /\ ~market_result.success)
    => /\ result.kind = "return"
       /\ result.value # None
       /\ "event" \in DOMAIN result.value
       /\ result.value.steps = <<"scraped", "analyzed", "market_failed">>
       /\ result.value.market_result = market_result
       /\ response.status = "success"
       /\ response.event_found
       /\ response.event = result.value.event
       /\ "market_result" \in DOMAIN response
       /\ response.market_result = market_result

C5_Witness ==
    /\ Finished
    /\ response.event_found
    /\ "market_result" \in DOMAIN response
    /\ ~response.market_result.success

\* the dry_run argument of the create_market call of this invocation
DryRun == IF call.entry = "create_market" THEN call.dry_run ELSE ~ALLOW_CREATE_MARKET

\* C6: create_market with dry_run true issues neither the health probe nor
\* the create call, and returns success=true, mode simulation and an
\* identifier that starts with SIM-.
C6_DryRunIsSimulation ==
    (payload # NotSet /\ DryRun)
    => /\ pc = "idle"
       /\ Requests("health") = {}
       /\ Requests("create") = {}
       /\ market_result # NotSet
       /\ market_result.success
       /\ market_result.mode = "simulation"
       /\ Head(market_result.market_id.v) = "SIM-"

C6_Witness ==
    /\ call.entry = "create_market"
    /\ call.dry_run
    /\ ALLOW_CREATE_MARKET
    /\ market_result # NotSet
    /\ market_result.mode = "simulation"

\* C7: while ALLOW_CREATE_MARKET is not enabled no run_pipeline or
\* create_market call issues a health probe or a create call, whatever
\* create_market_flag and dry_run are, and every publish result has mode
\* simulation.
C7_SimulationUnlessEnabled ==
    ~ALLOW_CREATE_MARKET
    => /\ Requests("health") = {}
       /\ Requests("create") = {}
       /\ market_result # NotSet => market_result.mode = "simulation"

C7_Witness ==
    /\ ~ALLOW_CREATE_MARKET
    /\ call.entry = "create_market"
    /\ ~call.dry_run
    /\ market_result # NotSet

ProbeFailureIn(error, o) ==
    \E j \in 1..Len(error) :
        error[j] = IF o.kind = "response" THEN ToString(o.status_code) ELSE o.kind

\* C8: the create call is issued only right after a health probe that
\* succeeded; after a probe that failed (non-2xx status or an exception)
\* create_market has returned success=false with the probe's failure in
\* error and has issued no create call.
C8_CreateOnlyAfterHealthyProbe ==
    /\ \A i \in Requests("create") :
           i > 1 /\ net[i - 1].req = "health" /\ Is2xx(net[i - 1].outcome)
    /\ \A i \in Requests("health") :
           ~Is2xx(net[i].outcome)
           => /\ pc = "idle"
              /\ Requests("create") = {}
              /\ market_result # NotSet
              /\ ~market_result.success
              /\ "error" \in DOMAIN market_result
              /\ ProbeFailureIn(market_result.error, net[i].outcome)

C8_Witness == Requests("create") # {} /\ LiveFinished

IdKeys == <<K_id, K_market_id, K_marketId, K_event_id>>
\* the response holds a non-empty string or a non-zero number under k
Carries(d, k) ==
    /\ k \in DOMAIN d.v
    /\ \/ d.v[k].t = "str" /\ Len(d.v[k].v) > 0
       \/ d.v[k].t = "int" /\ d.v[k].v # 0
NO_EVENT_ID == <<"Blockchain returned success but no event ID found">>

\* C9: a live create_market that ended on a connection failure, a timeout,
\* a non-2xx status or a response without identifier returned success=false
\* with the error message of that failure class, and every live result
\* echoes the request payload.
C9_LiveFailuresReported ==
    LiveFinished
    => LET o == LastRequest.outcome
       IN  /\ "payload" \in DOMAIN market_result
           /\ market_result.payload = payload
           /\ o.kind = "ConnectionError"
              => /\ ~market_result.success
                 /\ Head(market_result.error) = "Cannot connect to blockchain at "
           /\ o.kind = "Timeout"
              => /\ ~market_result.success
                 /\ Head(market_result.error) = "Blockchain request timed out: "
           /\ (o.kind = "response" /\ ~Is2xx(o))
              => /\ ~market_result.success
                 /\ Head(market_result.error) \in
                        {"Blockchain HTTP error ", "Blockchain health check failed: "}
           /\ (LastRequest.req = "create" /\ Is2xx(o)
               /\ json_loads(o.text).kind = "return"
               /\ json_loads(o.text).value.t = "dict"
               /\ \A i \in 1..4 : ~Carries(json_loads(o.text).value, IdKeys[i]))
              => /\ ~market_result.success
                 /\ market_result.error = NO_EVENT_ID

\* C10: when the create call was answered 2xx with a JSON object, the result
\* is success=true with the identifier of the first of id, market_id,
\* marketId, event_id that carries one, and it is the "no event ID found"
\* failure only when none of the four carries one.
C10_FirstIdentifierWins ==
    (LiveFinished /\ LastRequest.req = "create" /\ Is2xx(LastRequest.outcome)
     /\ json_loads(LastRequest.outcome.text).kind = "return"
     /\ json_loads(LastRequest.outcome.text).value.t = "dict")
    => LET d == json_loads(LastRequest.outcome.text).value
           C == {i \in 1..4 : Carries(d, IdKeys[i])}
       IN  IF C # {}
           THEN /\ market_result.success
                /\ market_result.market_id = d.v[IdKeys[MinOf(C)]]
           ELSE /\ ~market_result.success
                /\ market_result.error = NO_EVENT_ID

C10_Witness ==
    /\ LiveFinished
    /\ market_result.success
    /\ K_event_id \in DOMAIN market_result.blockchain_response.v
    /\ market_result.market_id = PyStr(<<"M", "1">>)

\* C11: every health probe answered with a 2xx status counts as passed: a
\* live create_market goes on to the create call, and
\* test_blockchain_connection reports success.
C11_Every2xxProbePasses ==
    /\ \A i \in Requests("health") :
           Is2xx(net[i].outcome)
           => \/ i = Len(net) /\ pc = "post"
              \/ i < Len(net) /\ net[i + 1].req = "create"
    /\ (test_result # NotSet /\ Requests("test_health") # {} /\ Is2xx(LastRequest.outcome))
       => test_result.success

\* the fetch attempts of this run, in order
FetchLog == [i \in 1..Cardinality(Requests("fetch")) |-> net[i].outcome]
FetchAttemptFailed(o) == o.kind # "response" \/ o.status_code >= 400

\* C12: scrape_content issues at most max_retries GETs; an attempt other
\* than the first follows a connection failure only; after an HTTP error
\* status, any other failure or a success no further attempt is made, and
\* after a failure that ends the fetch there is no document.
C12_RetryOnlyOnConnectionFailure ==
    /\ Cardinality(Requests("fetch")) <= max_retries
    /\ \A i \in Requests("fetch") :
           i > 1 => net[i - 1].req = "fetch" /\ net[i - 1].outcome.kind = "ConnectionError"
    /\ pc = "fetch"
       => /\ Cardinality(Requests("fetch")) < max_retries
          /\ Requests("fetch") # {} => LastRequest.outcome.kind = "ConnectionError"
    /\ (Requests("fetch") # {} /\ pc # "fetch" /\ FetchAttemptFailed(LastFetch))
       => /\ "scraped" \notin DOMAIN out
          /\ result = Return(None)

C12_Witness ==
    /\ Len(FetchLog) = max_retries
    /\ FetchLog[1].kind = "ConnectionError"
    /\ FetchLog[2].kind = "ConnectionError"
    /\ FetchLog[3].kind = "response"
    /\ FetchLog[3].status_code = 200
    /\ "scraped" \in DOMAIN out

ScrapedFile == out.run_id \o <<"_scraped.json">>
EventFile == out.run_id \o <<"_event.json">>
FetchSucceeded == Requests("fetch") # {} /\ pc # "fetch" /\ ~FetchAttemptFailed(LastFetch)

\* C13: once the fetch of a run has succeeded, <run_id>_scraped.json is the
\* first file the run has written and it holds the fetched document; this
\* is so while the synthesizer is being called and after the run ended,
\* whether it ended on too-short content, on a failed analysis or normally.
C13_ScrapedArtifactFirst ==
    FetchSucceeded
    => /\ "scraped" \in DOMAIN out
       /\ Len(written) >= 1
       /\ written[1] = ScrapedFile
       /\ ScrapedFile \in DOMAIN files
       /\ files[ScrapedFile] = out.scraped

C13_Witness ==
    /\ Finished
    /\ ContentShort
    /\ written = <<ScrapedFile>>
    /\ files[ScrapedFile] = out.scraped

C15_ArtifactsWrittenOnce ==
    [][\A i \in (Len(written) + 1)..Len(written') : written'[i] \notin DOMAIN files]_vars

OutcomeEventFound ==
    /\ response.status = "success"
    /\ response.event_found
    /\ "event" \in DOMAIN response
    /\ DOMAIN response.event = PredictionEventFields
    /\ "error" \notin DOMAIN response
    /\ "message" \notin DOMAIN response
OutcomeNoEventFound ==
    /\ response.status = "success"
    /\ ~response.event_found
    /\ "message" \in DOMAIN response
    /\ "event" \notin DOMAIN response
    /\ "error" \notin DOMAIN response
OutcomeError ==
    /\ response.status = "error"
    /\ ~response.event_found
    /\ "error" \in DOMAIN response
    /\ "event" \notin DOMAIN response
    /\ "message" \notin DOMAIN response

\* C16: when parse_url has returned, its response is exactly one of 'event
\* found', 'no event found' and 'error'; it is 'error', with the message
\* of the exception, exactly when an exception came out of run_pipeline.
C16_ThreeOutcomes ==
    Finished
    => /\ response # NotSet
       /\ OutcomeEventFound \/ OutcomeNoEventFound \/ OutcomeError
       /\ ~(OutcomeEventFound /\ OutcomeNoEventFound)
       /\ ~(OutcomeEventFound /\ OutcomeError)
       /\ ~(OutcomeNoEventFound /\ OutcomeError)
       /\ OutcomeError <=> result.kind = "raise"
       /\ OutcomeError => response.error = <<result.exc>>
       /\ OutcomeEventFound <=> (result.kind = "return" /\ result.value # None)

C16_Witness == Finished /\ OutcomeError /\ result = Raise("OSError")

\* analyze_with_ai of serve_frontend.py has returned or raised
Analyzed == call.entry = "analyze_with_ai" /\ pc = "idle" /\ analysis # NotSet

\* C17: in deterministic mode (ai_mock, or no generative client)
\* analyze_with_ai never requests a completion and never raises: for every
\* document and category it returns an event with a non-empty title, at
\* least two options, a resolution date and the document's url as source_url.
C17_DeterministicNeverFails ==
    (call.entry = "analyze_with_ai" /\ Deterministic)
    => /\ pc # "completion"
       /\ net = <<>>
       /\ Analyzed
          => /\ analysis.kind = "return"
             /\ analysis.value.fields.title.v # <<>>
             /\ Len(analysis.value.fields.options.v) >= 2
             /\ analysis.value.fields.resolution_date.v # <<>>
             /\ analysis.value.fields.source_url = PyStr(out.scraped.url)
             /\ analysis.value.fields.category = PyStr(call.category)

C17_Witness ==
    /\ Analyzed
    /\ ~call.ai_mock
    /\ ~openai
    /\ out.scraped.title = <<>>
    /\ analysis.kind = "return"
    /\ analysis.value.fields.title.v = <<"Will this article's predictions prove accurate?">>

C19_ConfidenceWithinUnitInterval ==
    (pc = "idle" /\ analysis # NotSet /\ analysis.kind = "return")
    => /\ analysis.value.fields.confidence.t = "float"
       /\ analysis.value.fields.confidence.v >= 0
       /\ analysis.value.fields.confidence.v <= 100

SnapExample ==
    [title |-> T_snap_title, content |-> T_snap_content,
     domain |-> urlparse(URL_A).netloc, url |-> URL_A]

\* C20: deterministic analysis of the document with title 'SNAP Benefits
\* and DoorDash' and content 'Article about SNAP benefits running out soon'
\* under category 'tech' returns the SNAP question with its two options,
\* confidence 0.6 (60 hundredths), category 'tech' and the document's url.
C20_SnapExample ==
    (Analyzed /\ Deterministic /\ out.scraped = SnapExample /\ call.category = CATEGORY)
    => /\ analysis.kind = "return"
       /\ analysis.value.fields.title
              = PyStr(<<"Will SNAP benefits mentioned in the article be exhausted by November 1, 2025?">>)
       /\ analysis.value.fields.options
              = PyList(<<PyStr(<<"Yes, benefits exhausted by Nov 1, 2025">>),
                         PyStr(<<"No, benefits remain on Nov 1, 2025">>)>>)
       /\ analysis.value.fields.confidence = PyFloat(60)
       /\ analysis.value.fields.category = PyStr(CATEGORY)
       /\ analysis.value.fields.source_url = PyStr(SnapExample.url)

\* C21: json_from_text returns the object parsed from the longest span that
\* starts at the text's first "{" and parses, and the default stub when the
\* text has no "{" or no span starting at the first "{" parses
JsonBraces(text) == {i \in 1..Len(text) : text[i] = "{"}
JsonSpans(text) ==
    {e \in MinOf(JsonBraces(text))..Len(text) :
         json_loads(SubSeq(text, MinOf(JsonBraces(text)), e)).kind = "return"}
JsonExpected(text) ==
    IF JsonBraces(text) = {} THEN JSON_STUB
    ELSE IF JsonSpans(text) = {} THEN JSON_STUB
    ELSE json_loads(SubSeq(text, MinOf(JsonBraces(text)), MaxOf(JsonSpans(text)))).value
JsonReturned == call.entry = "json_from_text" /\ pc = "idle"
C21_JsonFromText == JsonReturned => result = JsonExpected(out.text)

\* run_pipeline has returned its aggregate result with an event in it
ProducedEvent ==
    /\ Finished
    /\ result.kind = "return"
    /\ result.value # None
    /\ "event" \in DOMAIN result.value

\* C22: a run that produced an event has written exactly two files,
\* <run_id>_scraped.json and then <run_id>_event.json, and they hold the
\* 'scraped' and the 'event' entry of the result the run returned
C22_TwoArtifactsMatchResult ==
    ProducedEvent
    => /\ written = <<result.value.run_id \o <<"_scraped.json">>,
                      result.value.run_id \o <<"_event.json">> >>
       /\ \A i \in 1..Len(written) : written[i] \in DOMAIN files
       /\ files[written[1]] = result.value.scraped
       /\ files[written[2]] = result.value.event

C22_Witness ==
    /\ ProducedEvent
    /\ Len(written) = 2
    /\ files[written[2]] = result.value.event
    /\ result.value.steps = <<"scraped", "analyzed", "market_created">>

\* a run of run_pipeline (under main or parse_url) is under way
PipelineRunning == call.entry \in {"main", "parse_url"} /\ pc \in {"fetch", "completion", "health", "post"}
RequestCount(kind) == Cardinality(Requests(kind))

\* C23: a run makes at most max_retries (3) fetch attempts, at most one
\* completion call, at most one health probe and at most one create call,
\* and, every pending network call being answered, run_pipeline returns
C23_RunTerminates ==
    /\ [](/\ RequestCount("fetch") <= max_retries
          /\ RequestCount("completion") <= 1
          /\ RequestCount("health") <= 1
          /\ RequestCount("create") <= 1)
    /\ (PipelineRunning ~> Finished)

C23_Witness ==
    /\ Finished
    /\ RequestCount("fetch") = max_retries
    /\ RequestCount("health") = 1
    /\ RequestCount("create") = 1
    /\ Len(net) = max_retries + 2

\* the last response answers a get_events for a known category
ServedEvents ==
    /\ served # NotSet
    /\ served.request.kind = "get_events"
    /\ known_category(served.request.category)
\* what the request found: no timestamp, or one older than the window
FoundStale(request) == request.age = <<>> \/ request.age[1] > CACHE_TTL_SECONDS

\* C24: a get_events for a known category that finds no timestamp, or one
\* older than 300 s, answers only in the step in which its refresh_cache
\* completes (the timestamp is then the present time) and with the events of
\* the cache as that refresh leaves it; one that finds a timestamp at most
\* 300 s old answers without any refresh (cache, timestamps and suspended
\* requests unchanged) and with the events of the cache as it is
C24_RefreshBeforeRead ==
    [][(served' # served /\ ServedEvents')
       => /\ served'.refreshed <=> FoundStale(served'.request)
          /\ served'.body.events
                 = list_limit(cache_get(event_cache', served'.request.category),
                              served'.request.limit)
          /\ served'.refreshed
             => /\ served'.request.category \in DOMAIN cache_timestamp'
                /\ cache_timestamp'[served'.request.category] = now'
          /\ ~served'.refreshed
             => /\ event_cache' = event_cache
                /\ cache_timestamp' = cache_timestamp
                /\ tasks' = tasks]_vars

C24_Witness ==
    /\ ServedEvents
    /\ served.request.age = <<CACHE_TTL_SECONDS + 1>>
    /\ served.refreshed
    /\ Len(served.body.events) = 2

CachedIds(category) ==
    {cache_get(event_cache, category)[i].id : i \in 1..Len(cache_get(event_cache, category))}
RefreshesCompleted(category) == \A i \in 1..Len(tasks) : tasks[i].category # category

\* C25: once every refresh of a category that was started has completed,
\* the category's cache holds an event for every id any refresh of it
\* fetched, whether the refreshes ran one after another or were suspended
\* in fetch_feed at the same time and completed in either order
C25_NoLostUpdate ==
    \A category \in DOMAIN fetch_log :
        RefreshesCompleted(category) => fetch_log[category].ids \subseteq CachedIds(category)

C25_Witness ==
    /\ "tech" \in DOMAIN fetch_log
    /\ fetch_log["tech"].overlapped
    /\ tasks = <<>>
    /\ Cardinality(fetch_log["tech"].ids) = 2
    /\ Cardinality(CachedIds("tech")) = 2

InSteps(o, step) == \E i \in 1..Len(o.steps) : o.steps[i] = step
LastStep(o) == IF o.steps = <<>> THEN "" ELSE o.steps[Len(o.steps)]
MarketSteps == {"market_created", "market_failed"}
Coherent(o, c) ==
    /\ InSteps(o, "scraped") <=> "scraped" \in DOMAIN o
    /\ InSteps(o, "analyzed") <=> "event" \in DOMAIN o
    /\ "market_result" \in DOMAIN o <=> \E step \in MarketSteps : InSteps(o, step)
    /\ "market_result" \in DOMAIN o => c.create_market_flag /\ InSteps(o, "analyzed")
    /\ "market_id" \in DOMAIN o <=> LastStep(o) = "market_created"

\* C26: the aggregate out of run_pipeline, while the run waits on a network
\* call and when it is returned, has 'scraped' among its steps iff it has a
\* scraped document, 'analyzed' iff it has an event, a market step iff it has
\* a market_result and then only with create_market_flag set and after
\* 'analyzed', and a market_id iff its last step is 'market_created'; with
\* create_market_flag false create_market is not called: no market_result,
\* no probe and no create request
C26_ResultCoherentWithSteps ==
    /\ (call.entry \in {"main", "parse_url"} /\ out # NotSet) => Coherent(out, call)
    /\ (Finished /\ result.kind = "return" /\ result.value # None)
       => /\ Coherent(result.value, call)
          /\ ~call.create_market_flag
             => /\ market_result = NotSet
                /\ Requests("health") = {}
                /\ Requests("create") = {}
                /\ result.value.steps = <<"scraped", "analyzed">>

C26_Witness ==
    /\ Finished
    /\ result.kind = "return"
    /\ result.value # None
    /\ call.create_market_flag
    /\ "market_id" \in DOMAIN result.value
    /\ result.value.market_result.mode = "blockchain"
    /\ LastStep(result.value) = "market_created"

\* the titles of the five rule templates, in the order of the rule table
RuleTitles ==
    << <<"Will GitHub Universe 2025 exceed 4,000 attendees?">>,
       <<"Will SNAP benefits mentioned in the article be exhausted by November 1, 2025?">>,
       <<"Will Trump's crypto pardons impact Bitcoin price by December 2025?">>,
       <<"Will AI robotics funding exceed $50B in 2025?">>,
       <<"Will luxury watch thefts at major events increase by 25% in 2025?">> >>
\* the condition of each rule as the rule table states it
RuleConditions(d) ==
    << Contains(lower(d.title), KW_github_universe) \/ Contains(lower(d.content), KW_github_universe),
       Contains(lower(d.title), KW_snap) \/ Contains(lower(d.content), KW_snap_benefits)
           \/ Contains(lower(d.content), KW_doordash),
       Contains(lower(d.title), KW_trump) \/ Contains(lower(d.content), KW_pardon)
           \/ Contains(lower(d.content), KW_binance),
       Contains(lower(d.title), KW_robot) \/ Contains(lower(d.title), KW_ai)
           \/ Contains(lower(d.content), KW_artificial_intelligence),
       Contains(lower(d.title), KW_luxury) \/ Contains(lower(d.content), KW_theft)
           \/ Contains(lower(d.content), KW_grand_prix) >>
RulesHolding(d) == {k \in 1..Len(RuleTitles) : RuleConditions(d)[k]}
MockAnalyzed == Analyzed /\ Deterministic /\ call.entry = "analyze_with_ai"

\* C27: the deterministic branch gives a document the template of the first
\* rule, in the order GitHub Universe, SNAP/DoorDash, Trump/pardon/Binance,
\* robot/AI, luxury/theft/grand prix, whose condition it meets, and a
\* generic template only when it meets none
C27_FirstMatchingRuleWins ==
    MockAnalyzed
    => /\ analysis.kind = "return"
       /\ IF RulesHolding(out.scraped) # {}
          THEN analysis.value.fields.title = PyStr(RuleTitles[MinOf(RulesHolding(out.scraped))])
          ELSE \A k \in 1..Len(RuleTitles) : analysis.value.fields.title # PyStr(RuleTitles[k])

C27_Witness ==
    /\ MockAnalyzed
    /\ RulesHolding(out.scraped) = {1, 2, 3}
    /\ analysis.value.fields.title = PyStr(RuleTitles[1])

\* the keywords of each rule
RuleKeywords ==
    << {KW_github_universe},
       {KW_snap, KW_snap_benefits, KW_doordash},
       {KW_trump, KW_pardon, KW_binance},
       {KW_robot, KW_ai, KW_artificial_intelligence},
       {KW_luxury, KW_theft, KW_grand_prix} >>
KeywordOccurs(d, kw) == Contains(lower(d.title), kw) \/ Contains(lower(d.content), kw)
RulesMatching(d) == {k \in 1..Len(RuleKeywords) : \E kw \in RuleKeywords[k] : KeywordOccurs(d, kw)}

\* C28: a rule fires whenever one of its keywords occurs in the lowercased
\* title or in the lowercased content, whichever of the two holds it: the
\* event has the template of the first rule with a keyword in either field
C28_KeywordsMatchEitherField ==
    MockAnalyzed
    => /\ analysis.kind = "return"
       /\ RulesMatching(out.scraped) # {}
          => analysis.value.fields.title = PyStr(RuleTitles[MinOf(RulesMatching(out.scraped))])

IdsOf(d) == {d[i].id : i \in 1..Len(d)}
\* in this step the refresh_cache of category completes
RefreshCompletes(category) ==
    \/ startup' = startup + 1 /\ GOOGLE_NEWS_FEEDS[startup + 1] = category
    \/ \E i \in 1..Len(tasks) : tasks[i].category = category /\ tasks' = RemoveAt(tasks, i)
\* in this step a get_events for category is answered at once
AnsweredAtOnce(category) ==
    /\ ncalls' = ncalls + 1
    /\ served' # served
    /\ served'.request.kind = "get_events"
    /\ served'.request.category = category

\* C29: no step removes a cached event (a category's cached ids only grow,
\* each id is held once); a refresh_cache that completes sets the category's
\* timestamp to the present time even when its fetch failed, and a failed
\* fetch leaves the cached events as they were; so a get_events arriving
\* within 300 s of a failed refresh is answered at once with the old events
\* and fetches nothing; and the refresh_cache of an unknown category leaves
\* cache and timestamps alone, so that no unknown category is ever in them
C29_CacheOnlyGrows ==
    [][/\ \A c \in DOMAIN event_cache :
              /\ c \in DOMAIN event_cache'
              /\ IdsOf(event_cache[c]) \subseteq IdsOf(event_cache'[c])
       /\ \A c \in DOMAIN event_cache' :
              /\ known_category(c)
              /\ Cardinality(IdsOf(event_cache'[c])) = Len(event_cache'[c])
       /\ \A c \in DOMAIN cache_timestamp' : known_category(c)
       /\ \A c \in Keys(GOOGLE_NEWS_FEEDS) \cup Keys(ALTERNATIVE_FEEDS) :
              /\ RefreshCompletes(c)
                 => /\ c \in DOMAIN cache_timestamp' /\ cache_timestamp'[c] = now'
                    /\ fetch_log'[c].failed
                       => cache_get(event_cache', c) = cache_get(event_cache, c)
              /\ (/\ AnsweredAtOnce(c)
                  /\ log_get(fetch_log, c).failed
                  /\ c \in DOMAIN cache_timestamp
                  /\ now - cache_timestamp[c] <= CACHE_TTL_SECONDS)
                 => /\ ~served'.refreshed
                    /\ tasks' = tasks
                    /\ served'.body.events
                           = list_limit(cache_get(event_cache, c), served'.request.limit)
       /\ \A c \in RequestCategories :
              (AnsweredAtOnce(c) /\ ~known_category(c))
              => /\ event_cache' = event_cache
                 /\ cache_timestamp' = cache_timestamp
                 /\ served'.body.events = <<>>]_vars

C29_Witness ==
    /\ served # NotSet
    /\ served.request.kind = "get_events"
    /\ served.request.category = "tech"
    /\ served.request.age = <<0>>
    /\ ~served.refreshed
    /\ served.body.events # <<>>
    /\ log_get(fetch_log, "tech").failed
    /\ cache_timestamp["tech"] > 0

ScrapeAnswered == call.entry = "url_scraper.scrape_url" /\ pc = "idle"

\* C30: the /scrape handler always answers with a ScrapeResponse; when the
\* scraping failed it has success false and no event; once analyze_with_ai
\* has returned an event the response carries that event; and success is
\* true exactly when create_market returned a market identifier
C30_ScrapeHandlerResponse ==
    ScrapeAnswered
    => /\ response # NotSet
       /\ response.cls = "ScrapeResponse"
       /\ out = NotSet => (~response.fields.success /\ response.fields.event = None)
       /\ (analysis # NotSet /\ analysis.kind = "return")
          => response.fields.event = analysis.value
       /\ response.fields.success <=> (market_result # NotSet /\ Truthy(market_result))

====
